---- MODULE Spec2Model ----
(***************************************************************************)
(* Markdown2PDF: the batch conversion worker ConvertThread.run of          *)
(* src/Markdown2PDF.py, its renderer pre-check, its per-file try / except  *)
(* / finally body, the temporary header/footer files it writes and removes *)
(* in the output directory, and the signals (log_message, progress,        *)
(* finished, error) it emits.                                              *)
(***************************************************************************)
EXTENDS Integers, Sequences, FiniteSets, TLC

\* Longest input list of a run.
MaxFiles == 3

(***************************************************************************)
(* Paths.  A path is a record [dir, name, ext]; os.path.basename keeps     *)
(* name and ext, os.path.splitext(...)[0] keeps name.                      *)
(***************************************************************************)
None == [dir |-> "", name |-> "", ext |-> ""]

Path(d, n, e) == [dir |-> d, name |-> n, ext |-> e]

\* The Markdown files the user may select; some share a base name.
PathPool ==
    <<Path("a", "x", "md"), Path("b", "x", "md"), Path("a", "y", "md"),
      Path("b", "y", "md"), Path("a", "z", "md")>>

\* The files a run may be given.
InputPaths == {PathPool[k] : k \in 1..MaxFiles}

\* The output directories a run may be given.
OutputDirs == {"out"}

\* os.path.basename(file_path)
basename(p) == [name |-> p.name, ext |-> p.ext]

\* f'{os.path.splitext(file_name)[0]}.pdf'
output_filename(p) == [name |-> basename(p).name, ext |-> "pdf"]

\* os.path.abspath(os.path.join(self.output_dir, output_filename))
output_path(dir, p) == Path(dir, output_filename(p).name, output_filename(p).ext)

\* f'header_temp_{i}' and f'footer_temp_{i}', i the 1-based index of the file
HeaderNames == <<"header_temp_1", "header_temp_2", "header_temp_3", "header_temp_4", "header_temp_5">>
FooterNames == <<"footer_temp_1", "footer_temp_2", "footer_temp_3", "footer_temp_4", "footer_temp_5">>

\* os.path.join(self.output_dir, f'header_temp_{i}.html')
header_temp(dir, k) == Path(dir, HeaderNames[k], "html")

\* os.path.join(self.output_dir, f'footer_temp_{i}.html')
footer_temp(dir, k) == Path(dir, FooterNames[k], "html")

\* Every path the run can touch.
AllPaths ==
    InputPaths
        \cup {output_path(d, p) : d \in OutputDirs, p \in InputPaths}
        \cup {header_temp(d, k) : d \in OutputDirs, k \in 1..MaxFiles}
        \cup {footer_temp(d, k) : d \in OutputDirs, k \in 1..MaxFiles}

\* What a path holds: nothing, an empty file, or a file of some kind.
Absent == "absent"
Empty == "empty"

(***************************************************************************)
(* progress = int((i / total_files) * 100): a binary64 division, a         *)
(* binary64 multiplication by 100 and a truncation toward zero.  A         *)
(* binary64 value in [2^exp, 2^(exp+1)) is (1 + frac / 2^52) * 2^exp; the  *)
(* 52 fraction bits are kept as four limbs of 13 bits, most significant    *)
(* first, so that every intermediate stays below 2^31.                     *)
(***************************************************************************)
\* 2^13: one limb of the 52-bit fraction.
Limb == 8192

RECURSIVE Pow2(_)
Pow2(n) == IF n = 0 THEN 1 ELSE 2 * Pow2(n - 1)

\* The e >= 0 with num * 2^e in [den, 2 * den), for 1 <= num <= den.
RECURSIVE Shift(_, _)
Shift(num, den) == IF num >= den THEN 0 ELSE 1 + Shift(2 * num, den)

\* limbs + 1 where the last limb has radix `last`; carry is 1 when every limb wrapped.
IncLimbs(l, last) ==
    LET c4 == IF l[4] + 1 = last THEN 1 ELSE 0
        c3 == IF c4 = 1 /\ l[3] + 1 = Limb THEN 1 ELSE 0
        c2 == IF c3 = 1 /\ l[2] + 1 = Limb THEN 1 ELSE 0
        c1 == IF c2 = 1 /\ l[1] + 1 = Limb THEN 1 ELSE 0
    IN  [limbs |-> <<(l[1] + c2) % Limb, (l[2] + c3) % Limb, (l[3] + c4) % Limb, (l[4] + 1) % last>>,
         carry |-> c1]

\* Round to nearest, ties to even: round up when the first dropped bit is 1
\* and either a later dropped bit is 1 or the last kept bit is 1.
RoundsUp(lastKept, guard, sticky) == guard = 1 /\ (sticky \/ lastKept % 2 = 1)

\* The binary64 quotient num / den for integers 1 <= num <= den < 2^17.
FloatDiv(num, den) ==
    LET e  == Shift(num, den)
        r0 == num * Pow2(e) - den
        d1 == (r0 * Limb) \div den
        r1 == (r0 * Limb) % den
        d2 == (r1 * Limb) \div den
        r2 == (r1 * Limb) % den
        d3 == (r2 * Limb) \div den
        r3 == (r2 * Limb) % den
        d4 == (r3 * Limb) \div den
        r4 == (r3 * Limb) % den
        guard  == (2 * r4) \div den
        sticky == (2 * r4) % den # 0
        up == IncLimbs(<<d1, d2, d3, d4>>, Limb)
    IN  IF ~RoundsUp(d4, guard, sticky) THEN [exp |-> 0 - e, frac |-> <<d1, d2, d3, d4>>]
        ELSE IF up.carry = 1 THEN [exp |-> 1 - e, frac |-> <<0, 0, 0, 0>>]
        ELSE [exp |-> 0 - e, frac |-> up.limbs]

\* The binary64 product x * 100, as top * 2^exp + (a fraction below 2^exp):
\* the exact product is (100 + carry) * 2^52 + low limbs, rounded to 53 bits.
FloatMul100(x) ==
    LET t4 == x.frac[4] * 100
        t3 == x.frac[3] * 100 + t4 \div Limb
        t2 == x.frac[2] * 100 + t3 \div Limb
        t1 == x.frac[1] * 100 + t2 \div Limb
        top == 100 + t1 \div Limb
        low == t4 % Limb
        drop == IF top >= 128 THEN 7 ELSE 6
        kept == low \div Pow2(drop)
        gone == low % Pow2(drop)
        guard == gone \div Pow2(drop - 1)
        sticky == gone % Pow2(drop - 1) # 0
        up == IncLimbs(<<t1 % Limb, t2 % Limb, t3 % Limb, kept>>, Limb \div Pow2(drop))
    IN  IF RoundsUp(kept, guard, sticky)
        THEN [exp |-> x.exp, top |-> top + up.carry, rest |-> up.limbs]
        ELSE [exp |-> x.exp, top |-> top, rest |-> <<t1 % Limb, t2 % Limb, t3 % Limb, kept>>]

\* round() in place of int(): the nearest integer instead of the truncation.
FloatToIntRounded(y) ==
    IF y.exp = 0 THEN y.top + (IF y.rest[1] >= Limb \div 2 THEN 1 ELSE 0)
    ELSE (y.top + Pow2(0 - y.exp - 1)) \div Pow2(0 - y.exp)

\* int(y) for a product y = (top + fraction) * 2^exp with exp <= 0.
FloatToInt(y) == y.top \div Pow2(0 - y.exp)

\* The share of the files still to do in place of the share done.
ProgressRemaining(k, total) ==
    FloatToInt(FloatMul100(FloatDiv(total - k + 1, total)))

\* progress = int((i / total_files) * 100)
ProgressValue(k, total) == FloatToInt(FloatMul100(FloatDiv(k, total)))

(***************************************************************************)
(* State.                                                                  *)
(***************************************************************************)
VARIABLES
    input_files,    \* self.input_files: [str |-> is it one path string, list |-> the paths]
    output_dir,     \* self.output_dir
    header_edit,    \* the text of the header widget
    footer_edit,    \* the text of the footer widget
    pc,             \* where run() is
    is_valid,       \* run's local is_valid
    i,              \* the loop index of run, from 1
    header,         \* run's local header
    footer,         \* run's local footer
    header_path,    \* run's local header_path (None when unset)
    footer_path,    \* run's local footer_path (None when unset)
    raised,         \* whether the except clause of the current file was entered
    disk,           \* what every path holds
    events,         \* the signals emitted so far, in order
    opened,         \* history: the indices whose source file run tried to open
    invoked,        \* history: the indices for which pdfkit.from_string was called
    proc,           \* history: per index, what the renderer process did
    outcome,        \* history: per index "pending", "returned" or "raised"
    unremoved,      \* history: the paths whose os.remove failed
    unread,         \* history: the indices whose source file could not be read
    faults,         \* history: how many failures the environment has injected
    page_size_combo,    \* the current text of the page size widget
    margin_spinboxes,   \* the values of the four margin widgets
    encoding_combo,     \* the current text of the encoding widget
    options,        \* run's local options: the map handed to pdfkit.from_string
    rendered,       \* history: per from_string call, the texts and options used
    request,        \* history: the settings of the widgets when the thread was started
    edits,          \* history: how many times the user changed a widget since then
    call,           \* a function of the thread called on its own: its name and arguments
    returned,       \* what that call returned
    wk_manager,     \* wk_manager.wkhtmltopdf_path, the renderer path of the manager
    config,         \* the renderer path of the module's pdfkit configuration
    convert_button, \* whether the start button is enabled
    threads,        \* the ConvertThreads the window has started, in order
    selected_files, \* BatchConvertWidget.selected_files
    file_list       \* the items of BatchConvertWidget.file_list, by row

vars == <<input_files, output_dir, header_edit, footer_edit, pc, is_valid, i, header,
          footer, header_path, footer_path, raised, disk, events, opened, invoked,
          proc, outcome, unremoved, unread, faults, page_size_combo, margin_spinboxes,
          encoding_combo, options, rendered, request, edits, call, returned,
          wk_manager, config, convert_button, threads, selected_files, file_list>>

\* The main window and its batch page, beside the settings widgets.
window == <<wk_manager, config, convert_button, threads, selected_files, file_list>>

\* The state run never writes.
outside ==
    <<page_size_combo, margin_spinboxes, encoding_combo, request, edits, call, returned, window>>

\* No function is called on its own.
NoCall == [fn |-> "", args |-> <<>>]
NoResult == [done |-> FALSE, value |-> <<>>]

\* Most failures (I/O errors, renderer failures, failed removals) in one run.
MaxFaults == 2

\* The texts a header or footer widget may hold.
HeaderTexts == {" ", "H"}
FooterTexts == {"", "F"}

\* str.strip() on the texts above
strip(s) == IF s = " " THEN "" ELSE s

\* The sequences over S of length at most n.
RECURSIVE SeqsUpTo(_, _)
SeqsUpTo(S, n) ==
    IF n = 0 THEN {<<>>}
    ELSE LET shorter == SeqsUpTo(S, n - 1)
         IN  shorter \cup {Append(q, x) : q \in {r \in shorter : Len(r) = n - 1}, x \in S}

\* The file lists the batch widget hands over: it never adds a path twice.
NoDuplicates(l) == \A j, k \in 1..Len(l) : l[j] = l[k] => j = k

\* files_to_process and total_files of run
files_to_process == input_files.list
total_files == Len(files_to_process)

\* The file of the current iteration.
file_path == files_to_process[i]

(***************************************************************************)
(* Signals.                                                                *)
(***************************************************************************)
NoName == [name |-> "", ext |-> ""]

log_message(kind, name, n) == [signal |-> "log_message", kind |-> kind, name |-> name, value |-> n]
progress(v) == [signal |-> "progress", kind |-> "", name |-> NoName, value |-> v]
finished == [signal |-> "finished", kind |-> "", name |-> NoName, value |-> 0]
error(kind) == [signal |-> "error", kind |-> kind, name |-> NoName, value |-> 0]

emit(e) == events' = Append(events, e)

(***************************************************************************)
(* The environment of one run.                                             *)
(***************************************************************************)
\* What `wkhtmltopdf --version` can do within its 10 s timeout.
Probes == {"returncode_0", "returncode_nonzero", "timeout", "exception"}

\* WkHtmlToPdfManager.validate_wkhtmltopdf: the path is known, exists, and
\* the version probe exits with 0.
validate_wkhtmltopdf(path_known, path_exists, probe) ==
    IF ~path_known \/ ~path_exists THEN FALSE
    ELSE probe = "returncode_0"

\* What the renderer process can do before it exits: its exit status and
\* what it leaves at the output path ("keep": it wrote nothing).
RendererResults ==
    { [exit |-> 0, wrote |-> "pdf"],
      [exit |-> 0, wrote |-> Empty],
      [exit |-> 1, wrote |-> "keep"] }

NoProc == [exit |-> 0 - 1, wrote |-> "keep"]

\* pdfkit.from_string raises IOError when the process exits with an error or
\* the file at the output path is missing or empty; otherwise it returns True.
from_string_raises(result, content) ==
    result.exit # 0 \/ content = Absent \/ content = Empty

\* A failure the environment may still inject.
MayFail == faults < MaxFaults

(***************************************************************************)
(* The settings widgets and the option map built from them.                *)
(***************************************************************************)
\* The items of the page size and the encoding widgets.
PageSizes == {"A4", "A3", "Letter", "Legal"}
Encodings == {"UTF-8", "GBK", "GB2312"}

\* The sides that have a margin widget.
MarginKeys == {"top", "right", "bottom", "left"}

\* Values of a margin widget tried here; its range is 0..50.
MarginValues == {0, 15, 20, 50}

\* spinbox.setValue(20 if key in ['top', 'bottom'] else 15)
DefaultMargins == [top |-> 20, right |-> 15, bottom |-> 20, left |-> 15]

\* f"{value}mm"
mm(value) == ToString(value) \o "mm"

\* What the widgets show: the texts and values run reads from them.
Settings(h, f, size, margins, enc) ==
    [header |-> h, footer |-> f, page_size |-> size, margins |-> margins, encoding |-> enc]

current_settings ==
    Settings(header_edit, footer_edit, page_size_combo, margin_spinboxes, encoding_combo)

\* `if header_path:` -- a path is set (None and '' are false).
is_set(path) == path # None

\* options = {...} of create_pdf_options, before the header and footer entries
base_options ==
    [ k \in {"page-size", "margin-top", "margin-right", "margin-bottom", "margin-left",
             "encoding", "enable-local-file-access", "disable-external-links",
             "disable-internal-links", "no-images", "disable-javascript",
             "header-spacing", "footer-spacing", "footer-right", "footer-font-size"} |->
        CASE k = "page-size" -> page_size_combo
          [] k = "margin-top" -> mm(margin_spinboxes.top)
          [] k = "margin-right" -> mm(margin_spinboxes.right)
          [] k = "margin-bottom" -> mm(margin_spinboxes.bottom)
          [] k = "margin-left" -> mm(margin_spinboxes.left)
          [] k = "encoding" -> encoding_combo
          [] k = "enable-local-file-access" -> TRUE
          [] k = "disable-external-links" -> TRUE
          [] k = "disable-internal-links" -> TRUE
          [] k = "no-images" -> FALSE
          [] k = "disable-javascript" -> TRUE
          [] k = "header-spacing" -> "5"
          [] k = "footer-spacing" -> "5"
          [] k = "footer-right" -> "[page]/[toPage]"
          [] k = "footer-font-size" -> "10" ]

\* One more entry in an option map: options[key] = value
with_entry(opts, key, value) ==
    [k \in DOMAIN opts \cup {key} |-> IF k = key THEN value ELSE opts[k]]

\* create_pdf_options with JavaScript left on for documents without a header.
create_pdf_options_scripted(hp, fp) ==
    LET o0 == with_entry(base_options, "disable-javascript", is_set(hp))
        o1 == IF is_set(hp) THEN with_entry(o0, "header-html", hp) ELSE o0
    IN  IF is_set(fp) THEN with_entry(o1, "footer-html", fp) ELSE o1

\* create_pdf_options with the header and footer entries always written.
create_pdf_options_unguarded(hp, fp) ==
    with_entry(with_entry(base_options, "header-html", hp), "footer-html", fp)

\* ConvertThread.create_pdf_options(header_path, footer_path)
create_pdf_options(hp, fp) ==
    LET o0 == base_options
        o1 == IF is_set(hp) THEN with_entry(o0, "header-html", hp) ELSE o0
    IN  IF is_set(fp) THEN with_entry(o1, "footer-html", fp) ELSE o1

\* No option map built yet.
NoOptions == [k \in {} |-> TRUE]

\* No renderer path: None in the source.
NoPath == "None"

\* The renderer binaries there may be: the one find_wkhtmltopdf finds at
\* its search places, and one the user points to.
FoundBinary == "found"
ChosenBinary == "chosen"

\* The window as a thread finds it when it starts: the renderer was found
\* when the module was loaded, the start button is disabled, the batch page
\* is as it was created.
WindowAtStart ==
    /\ wk_manager = FoundBinary
    /\ config = FoundBinary
    /\ convert_button = FALSE
    /\ threads = <<>>
    /\ selected_files = <<>>
    /\ file_list = <<>>

\* The run's own state before run() begins.
RunLocals ==
    /\ pc = "validate"
    /\ is_valid = FALSE
    /\ i = 0
    /\ header = ""
    /\ footer = ""
    /\ header_path = None
    /\ footer_path = None
    /\ raised = FALSE
    /\ events = <<>>
    /\ opened = <<>>
    /\ invoked = <<>>
    /\ proc = [k \in 1..MaxFiles |-> NoProc]
    /\ outcome = [k \in 1..MaxFiles |-> "pending"]
    /\ unremoved = {}
    /\ unread = {}
    /\ faults = 0
    /\ options = NoOptions
    /\ rendered = <<>>

\* run starts with its locals unset, the input files on disk and nothing
\* else at the paths it can touch.
RunInit ==
    /\ RunLocals
    /\ disk = [p \in AllPaths |-> IF p \in InputPaths THEN "md" ELSE Absent]

\* The thread is constructed over the widgets as the window creates them,
\* with any header and footer text, and started.
Init ==
    /\ input_files \in
          {[str |-> FALSE, list |-> l] :
              l \in {q \in SeqsUpTo(InputPaths, MaxFiles) : NoDuplicates(q)}}
              \cup {[str |-> TRUE, list |-> <<p>>] : p \in InputPaths}
    /\ output_dir \in OutputDirs
    /\ header_edit \in HeaderTexts
    /\ footer_edit \in FooterTexts
    /\ page_size_combo = "A4"
    /\ margin_spinboxes = DefaultMargins
    /\ encoding_combo = "UTF-8"
    /\ request = current_settings
    /\ edits = 0
    /\ WindowAtStart
    /\ call = NoCall
    /\ returned = NoResult
    /\ RunInit

(***************************************************************************)
(* ConvertThread.run, one action per step between two interactions with    *)
(* the environment.                                                        *)
(***************************************************************************)
\* Validate without the `return` after the error signal.
ValidateFallsThrough ==
    /\ pc = "validate"
    /\ \E path_known \in BOOLEAN, path_exists \in BOOLEAN, probe \in Probes :
          LET ok == validate_wkhtmltopdf(path_known, path_exists, probe)
          IN  /\ is_valid' = ok
              /\ pc' = "start"
              /\ IF ok THEN UNCHANGED events ELSE emit(error("validation"))
    /\ UNCHANGED <<outside, unread, options, rendered, input_files, output_dir, header_edit, footer_edit, i, header, footer,
                   header_path, footer_path, raised, disk, opened, invoked, proc,
                   outcome, unremoved, faults>>

\* is_valid, validation_msg = wk_manager.validate_wkhtmltopdf(); on failure
\* the error signal and return.
Validate ==
    /\ pc = "validate"
    /\ \E path_known \in BOOLEAN, path_exists \in BOOLEAN, probe \in Probes :
          LET ok == validate_wkhtmltopdf(path_known, path_exists, probe)
          IN  /\ is_valid' = ok
              /\ IF ok THEN pc' = "start" /\ UNCHANGED events
                 ELSE pc' = "done" /\ emit(error("validation"))
    /\ UNCHANGED <<outside, unread, options, rendered, input_files, output_dir, header_edit, footer_edit, i, header, footer,
                   header_path, footer_path, raised, disk, opened, invoked, proc,
                   outcome, unremoved, faults>>

\* Start without the test on total_files: with no file the loop is skipped
\* and run ends as after the last file.
StartWithoutTest ==
    /\ pc = "start"
    /\ LET first == IF input_files.str
                    THEN log_message("start_single", NoName, 0)
                    ELSE log_message("start_batch", NoName, total_files)
       IN  IF total_files = 0
           THEN /\ emit(first)
                /\ pc' = "finish"
                /\ UNCHANGED i
           ELSE /\ emit(first)
                /\ i' = 1
                /\ pc' = "file"
    /\ UNCHANGED <<outside, unread, options, rendered, input_files, output_dir, header_edit, footer_edit, is_valid, header,
                   footer, header_path, footer_path, raised, disk, opened, invoked,
                   proc, outcome, unremoved, faults>>

\* The first log line, and the error signal and return for an empty list.
Start ==
    /\ pc = "start"
    /\ LET first == IF input_files.str
                    THEN log_message("start_single", NoName, 0)
                    ELSE log_message("start_batch", NoName, total_files)
       IN  IF total_files = 0
           THEN /\ events' = events \o <<first, error("no_files")>>
                /\ pc' = "done"
                /\ UNCHANGED i
           ELSE /\ emit(first)
                /\ i' = 1
                /\ pc' = "file"
    /\ UNCHANGED <<outside, unread, options, rendered, input_files, output_dir, header_edit, footer_edit, is_valid, header,
                   footer, header_path, footer_path, raised, disk, opened, invoked,
                   proc, outcome, unremoved, faults>>

\* The head of the try body: the locals are reset, the names are derived and
\* the "[i/total] processing" line is logged.
BeginFile ==
    /\ pc = "file"
    /\ header_path' = None
    /\ footer_path' = None
    /\ raised' = FALSE
    /\ emit(log_message("processing", basename(file_path), i))
    /\ pc' = "read"
    /\ UNCHANGED <<outside, unread, options, rendered, input_files, output_dir, header_edit, footer_edit, is_valid, i, header,
                   footer, disk, opened, invoked, proc, outcome, unremoved, faults>>

\* The exception raised inside the try body of file i.
Raise ==
    /\ outcome' = [outcome EXCEPT ![i] = "raised"]
    /\ pc' = "except"

\* ReadFile with the failure of open or read swallowed: run goes on with
\* the file as if it had been read.
ReadFileSwallows ==
    /\ pc = "read"
    /\ opened' = Append(opened, i)
    /\ \/ /\ disk[file_path] # Absent
          /\ header' = strip(header_edit)
          /\ footer' = strip(footer_edit)
          /\ pc' = "header"
          /\ UNCHANGED <<outcome, faults, unread>>
       \/ /\ disk[file_path] = Absent \/ MayFail
          /\ faults' = IF disk[file_path] = Absent THEN faults ELSE faults + 1
          /\ unread' = unread \cup {i}
          /\ header' = strip(header_edit)
          /\ footer' = strip(footer_edit)
          /\ pc' = "header"
          /\ UNCHANGED outcome
    /\ UNCHANGED <<outside, options, rendered, input_files, output_dir, header_edit, footer_edit, is_valid, i,
                   header_path, footer_path, raised, disk, events, invoked, proc,
                   unremoved>>

\* open(file_path, 'r', encoding='utf-8') and f.read(); then the Markdown
\* conversion (which catches its own exceptions) and the widget texts.
ReadFile ==
    /\ pc = "read"
    /\ opened' = Append(opened, i)
    /\ \/ /\ disk[file_path] # Absent
          /\ header' = strip(header_edit)
          /\ footer' = strip(footer_edit)
          /\ pc' = "header"
          /\ UNCHANGED <<outcome, faults, unread>>
       \/ /\ disk[file_path] = Absent \/ MayFail
          /\ faults' = IF disk[file_path] = Absent THEN faults ELSE faults + 1
          /\ unread' = unread \cup {i}
          /\ Raise
          /\ UNCHANGED <<header, footer>>
    /\ UNCHANGED <<outside, options, rendered, input_files, output_dir, header_edit, footer_edit, is_valid, i,
                   header_path, footer_path, raised, disk, events, invoked, proc,
                   unremoved>>

\* with open(path, 'w', encoding='utf-8') as f: f.write(html): the file is
\* written, or open fails, or the write fails after open created the file.
WriteTemp(path, content, next) ==
    \/ /\ disk' = [disk EXCEPT ![path] = content]
       /\ pc' = next
       /\ UNCHANGED <<outcome, faults>>
    \/ /\ MayFail
       /\ faults' = faults + 1
       /\ UNCHANGED disk
       /\ Raise
    \/ /\ MayFail
       /\ faults' = faults + 1
       /\ disk' = [disk EXCEPT ![path] = Empty]
       /\ Raise

\* WriteHeader with the header file written whatever the header text is.
WriteHeaderAlways ==
    /\ pc = "header"
    /\ header_path' = header_temp(output_dir, i)
    /\ WriteTemp(header_temp(output_dir, i), "header_html", "footer")
    /\ UNCHANGED <<outside, unread, options, rendered, input_files, output_dir, header_edit, footer_edit, is_valid, i, header,
                   footer, footer_path, raised, events, opened, invoked, proc, unremoved>>

\* if header: header_path = ...; write the header HTML to it.
WriteHeader ==
    /\ pc = "header"
    /\ IF header # ""
       THEN /\ header_path' = header_temp(output_dir, i)
            /\ WriteTemp(header_temp(output_dir, i), "header_html", "footer")
       ELSE /\ pc' = "footer"
            /\ UNCHANGED <<header_path, disk, outcome, faults>>
    /\ UNCHANGED <<outside, unread, options, rendered, input_files, output_dir, header_edit, footer_edit, is_valid, i, header,
                   footer, footer_path, raised, events, opened, invoked, proc, unremoved>>

\* if footer: footer_path = ...; write the footer HTML to it.
WriteFooter ==
    /\ pc = "footer"
    /\ IF footer # ""
       THEN /\ footer_path' = footer_temp(output_dir, i)
            /\ WriteTemp(footer_temp(output_dir, i), "footer_html", "invoke")
       ELSE /\ pc' = "invoke"
            /\ UNCHANGED <<footer_path, disk, outcome, faults>>
    /\ UNCHANGED <<outside, unread, options, rendered, input_files, output_dir, header_edit, footer_edit, is_valid, i, header,
                   footer, header_path, raised, events, opened, invoked, proc, unremoved>>

\* Invoke with the success line logged before the renderer is called.
InvokeLogsFirst ==
    /\ pc = "invoke"
    /\ invoked' = Append(invoked, i)
    /\ options' = create_pdf_options(header_path, footer_path)
    /\ rendered' = Append(rendered, [header |-> header, footer |-> footer, options |-> options'])
    /\ emit(log_message("success", output_filename(file_path), 0))
    /\ pc' = "invoking"
    /\ UNCHANGED <<outside, unread, input_files, output_dir, header_edit, footer_edit, is_valid, i, header,
                   footer, header_path, footer_path, raised, disk, opened, proc,
                   outcome, unremoved, faults>>

\* The template and the options are built and pdfkit.from_string is called:
\* run now waits for the renderer process.
Invoke ==
    /\ pc = "invoke"
    /\ invoked' = Append(invoked, i)
    /\ options' = create_pdf_options(header_path, footer_path)
    /\ rendered' = Append(rendered, [header |-> header, footer |-> footer, options |-> options'])
    /\ pc' = "invoking"
    /\ UNCHANGED <<outside, unread, input_files, output_dir, header_edit, footer_edit, is_valid, i, header,
                   footer, header_path, footer_path, raised, disk, events, opened, proc,
                   outcome, unremoved, faults>>

\* The renderer process exits and pdfkit.from_string returns or raises.
RendererExits ==
    /\ pc = "invoking"
    /\ \E r \in RendererResults :
          LET out   == output_path(output_dir, file_path)
              after == IF r.wrote = "keep" THEN disk ELSE [disk EXCEPT ![out] = r.wrote]
          IN  /\ r = [exit |-> 0, wrote |-> "pdf"] \/ MayFail
              /\ faults' = IF r = [exit |-> 0, wrote |-> "pdf"] THEN faults ELSE faults + 1
              /\ proc' = [proc EXCEPT ![i] = r]
              /\ disk' = after
              /\ IF from_string_raises(r, after[out])
                 THEN Raise
                 ELSE /\ outcome' = [outcome EXCEPT ![i] = "returned"]
                      /\ pc' = "success"
    /\ UNCHANGED <<outside, unread, options, rendered, input_files, output_dir, header_edit, footer_edit, is_valid, i, header,
                   footer, header_path, footer_path, raised, events, opened, invoked,
                   unremoved>>

\* self.log_message.emit(f"✓ 成功生成: {output_filename}")
LogSuccess ==
    /\ pc = "success"
    /\ emit(log_message("success", output_filename(file_path), 0))
    /\ pc' = "finally"
    /\ UNCHANGED <<outside, unread, options, rendered, input_files, output_dir, header_edit, footer_edit, is_valid, i, header,
                   footer, header_path, footer_path, raised, disk, opened, invoked, proc,
                   outcome, unremoved, faults>>

\* Except without the inner try: the exception reaches the outer handler,
\* which emits the error signal and ends the run.
ExceptAborts ==
    /\ pc = "except"
    /\ raised' = TRUE
    /\ emit(error("fatal"))
    /\ pc' = "done"
    /\ UNCHANGED <<outside, unread, options, rendered, input_files, output_dir, header_edit, footer_edit, is_valid, i, header,
                   footer, header_path, footer_path, disk, opened, invoked, proc,
                   outcome, unremoved, faults>>

\* except Exception as e: the failure line is logged; `continue` takes
\* effect once the finally clause has run.
Except ==
    /\ pc = "except"
    /\ raised' = TRUE
    /\ emit(log_message("failure", basename(file_path), 0))
    /\ pc' = "finally"
    /\ UNCHANGED <<outside, unread, options, rendered, input_files, output_dir, header_edit, footer_edit, is_valid, i, header,
                   footer, header_path, footer_path, disk, opened, invoked, proc,
                   outcome, unremoved, faults>>

\* One round of the loop of cleanup_temp_files: os.remove(temp_file) when the
\* path is set and exists; `ok` is whether os.remove succeeds.
remove_temp(d, temp_file, ok) ==
    IF temp_file # None /\ d[temp_file] # Absent /\ ok
    THEN [d EXCEPT ![temp_file] = Absent]
    ELSE d

\* Whether cleanup_temp_files calls os.remove on the path.
removes(d, temp_file) == temp_file # None /\ d[temp_file] # Absent

\* Where run goes after the finally clause: `continue` skips the progress update.
after_finally == IF raised THEN "loop" ELSE "progress"

\* The cleanup at the end of the try body instead of in a finally clause: it
\* is skipped when the body raised.
CleanupOnlyOnSuccess ==
    /\ pc = "finally"
    /\ \E ok_h \in BOOLEAN, ok_f \in BOOLEAN :
          LET fail_h == ~raised /\ removes(disk, header_path) /\ ~ok_h
              fail_f == ~raised /\ removes(disk, footer_path) /\ ~ok_f
              n      == (IF fail_h THEN 1 ELSE 0) + (IF fail_f THEN 1 ELSE 0)
          IN  /\ ok_h \/ (~raised /\ removes(disk, header_path))
              /\ ok_f \/ (~raised /\ removes(disk, footer_path))
              /\ faults + n <= MaxFaults
              /\ faults' = faults + n
              /\ disk' = IF raised THEN disk
                         ELSE remove_temp(remove_temp(disk, header_path, ok_h), footer_path, ok_f)
              /\ unremoved' = unremoved \cup (IF fail_h THEN {header_path} ELSE {})
                                        \cup (IF fail_f THEN {footer_path} ELSE {})
    /\ pc' = after_finally
    /\ UNCHANGED <<outside, unread, options, rendered, input_files, output_dir, header_edit, footer_edit, is_valid, i, header,
                   footer, header_path, footer_path, raised, events, opened, invoked,
                   proc, outcome>>

\* Finally with cleanup_temp_files lacking its try statement: a failure of
\* os.remove ends the loop over the temporary files and reaches the outer
\* handler of run, which emits the error signal.
FinallyEscalates ==
    /\ pc = "finally"
    /\ \E ok_h \in BOOLEAN, ok_f \in BOOLEAN :
          LET fail_h == removes(disk, header_path) /\ ~ok_h
              fail_f == ~fail_h /\ removes(disk, footer_path) /\ ~ok_f
              n      == (IF fail_h THEN 1 ELSE 0) + (IF fail_f THEN 1 ELSE 0)
          IN  /\ ok_h \/ removes(disk, header_path)
              /\ ok_f \/ (~fail_h /\ removes(disk, footer_path))
              /\ faults + n <= MaxFaults
              /\ faults' = faults + n
              /\ disk' = IF fail_h THEN disk
                         ELSE remove_temp(remove_temp(disk, header_path, ok_h), footer_path, ok_f)
              /\ unremoved' = unremoved \cup (IF fail_h THEN {header_path} ELSE {})
                                        \cup (IF fail_f THEN {footer_path} ELSE {})
              /\ IF fail_h \/ fail_f
                 THEN pc' = "done" /\ emit(error("fatal"))
                 ELSE pc' = after_finally /\ UNCHANGED events
    /\ UNCHANGED <<outside, unread, options, rendered, input_files, output_dir, header_edit, footer_edit, is_valid, i, header,
                   footer, header_path, footer_path, raised, opened, invoked,
                   proc, outcome>>

\* finally: self.cleanup_temp_files(header_path, footer_path)
Finally ==
    /\ pc = "finally"
    /\ \E ok_h \in BOOLEAN, ok_f \in BOOLEAN :
          LET fail_h == removes(disk, header_path) /\ ~ok_h
              fail_f == removes(disk, footer_path) /\ ~ok_f
              n      == (IF fail_h THEN 1 ELSE 0) + (IF fail_f THEN 1 ELSE 0)
          IN  /\ ok_h \/ removes(disk, header_path)
              /\ ok_f \/ removes(disk, footer_path)
              /\ faults + n <= MaxFaults
              /\ faults' = faults + n
              /\ disk' = remove_temp(remove_temp(disk, header_path, ok_h), footer_path, ok_f)
              /\ unremoved' = unremoved \cup (IF fail_h THEN {header_path} ELSE {})
                                        \cup (IF fail_f THEN {footer_path} ELSE {})
    /\ pc' = after_finally
    /\ UNCHANGED <<outside, unread, options, rendered, input_files, output_dir, header_edit, footer_edit, is_valid, i, header,
                   footer, header_path, footer_path, raised, events, opened, invoked,
                   proc, outcome>>

\* progress = int((i / total_files) * 100); self.progress.emit(progress)
EmitProgress ==
    /\ pc = "progress"
    /\ emit(progress(ProgressValue(i, total_files)))
    /\ pc' = "loop"
    /\ UNCHANGED <<outside, unread, options, rendered, input_files, output_dir, header_edit, footer_edit, is_valid, i, header,
                   footer, header_path, footer_path, raised, disk, opened, invoked, proc,
                   outcome, unremoved, faults>>

\* for i, file_path in enumerate(files_to_process, 1): the next file, or the
\* end of the loop.
NextFile ==
    /\ pc = "loop"
    /\ IF i < total_files
       THEN i' = i + 1 /\ pc' = "file"
       ELSE pc' = "finish" /\ UNCHANGED i
    /\ UNCHANGED <<outside, unread, options, rendered, input_files, output_dir, header_edit, footer_edit, is_valid, header,
                   footer, header_path, footer_path, raised, disk, events, opened,
                   invoked, proc, outcome, unremoved, faults>>

\* Finish with the two emits swapped.
FinishThenLog ==
    /\ pc = "finish"
    /\ events' = events \o <<finished, log_message("done", NoName, 0)>>
    /\ pc' = "done"
    /\ UNCHANGED <<outside, unread, options, rendered, input_files, output_dir, header_edit, footer_edit, is_valid, i, header,
                   footer, header_path, footer_path, raised, disk, opened, invoked, proc,
                   outcome, unremoved, faults>>

\* self.log_message.emit("转换完成！"); self.finished.emit()
Finish ==
    /\ pc = "finish"
    /\ events' = events \o <<log_message("done", NoName, 0), finished>>
    /\ pc' = "done"
    /\ UNCHANGED <<outside, unread, options, rendered, input_files, output_dir, header_edit, footer_edit, is_valid, i, header,
                   footer, header_path, footer_path, raised, disk, opened, invoked, proc,
                   outcome, unremoved, faults>>

\* The steps run takes by itself.
Worker ==
    \/ Validate
    \/ Start
    \/ BeginFile
    \/ ReadFile
    \/ WriteHeader
    \/ WriteFooter
    \/ Invoke
    \/ LogSuccess
    \/ Except
    \/ Finally
    \/ EmitProgress
    \/ NextFile
    \/ Finish

Next == Worker \/ RendererExits

Spec == Init /\ [][Next]_vars

\* The worker thread keeps running; nothing makes the renderer process exit.
FairSpec == Spec /\ WF_vars(Worker)

(***************************************************************************)
(* A run over an output directory that already holds files of the user.    *)
(***************************************************************************)
\* What a file of the user holds; run writes no such content.
UserContent == "user"

\* The sets of paths tried for the files the output directory already holds.
ExistingFiles ==
    { {},
      {header_temp("out", 1)},
      {footer_temp("out", 2), Path("out", "x", "pdf")},
      {header_temp("out", 2), footer_temp("out", 1), Path("out", "y", "pdf")} }

\* Init with files of the user in the output directory.
ExistingFilesInit ==
    /\ input_files \in
          {[str |-> FALSE, list |-> l] :
              l \in {q \in SeqsUpTo(InputPaths, MaxFiles) : NoDuplicates(q)}}
    /\ output_dir \in OutputDirs
    /\ header_edit \in HeaderTexts
    /\ footer_edit \in FooterTexts
    /\ page_size_combo = "A4"
    /\ margin_spinboxes = DefaultMargins
    /\ encoding_combo = "UTF-8"
    /\ request = current_settings
    /\ edits = 0
    /\ WindowAtStart
    /\ call = NoCall
    /\ returned = NoResult
    /\ RunLocals
    /\ \E existing \in ExistingFiles :
          disk = [p \in AllPaths |->
                     IF p \in InputPaths THEN "md"
                     ELSE IF p \in existing THEN UserContent ELSE Absent]

ExistingFilesSpec == ExistingFilesInit /\ [][Next]_vars

(***************************************************************************)
(* The GUI thread during a run: check_wkhtmltopdf_and_convert disables the *)
(* convert button only, so the user can still change every settings widget *)
(* the worker reads.                                                       *)
(***************************************************************************)
\* Most changes of a widget during one run.
MaxEdits == 1

\* The run's own state and what it was given.
run_state == <<input_files, output_dir, pc, is_valid, i, header, footer, header_path,
               footer_path, raised, disk, events, opened, invoked, proc, outcome,
               unremoved, unread, faults, options, rendered, request, call, returned, window>>

\* The user changes one widget while the worker thread is running.
EditSettings ==
    /\ pc # "done"
    /\ edits < MaxEdits
    /\ edits' = edits + 1
    /\ \/ /\ \E t \in HeaderTexts \ {header_edit} : header_edit' = t
          /\ UNCHANGED <<footer_edit, page_size_combo, margin_spinboxes, encoding_combo>>
       \/ /\ \E t \in FooterTexts \ {footer_edit} : footer_edit' = t
          /\ UNCHANGED <<header_edit, page_size_combo, margin_spinboxes, encoding_combo>>
       \/ /\ \E t \in PageSizes \ {page_size_combo} : page_size_combo' = t
          /\ UNCHANGED <<header_edit, footer_edit, margin_spinboxes, encoding_combo>>
       \/ /\ \E k \in MarginKeys : \E v \in MarginValues \ {margin_spinboxes[k]} :
                margin_spinboxes' = [margin_spinboxes EXCEPT ![k] = v]
          /\ UNCHANGED <<header_edit, footer_edit, page_size_combo, encoding_combo>>
       \/ /\ \E t \in Encodings \ {encoding_combo} : encoding_combo' = t
          /\ UNCHANGED <<header_edit, footer_edit, page_size_combo, margin_spinboxes>>
    /\ UNCHANGED run_state

GuiNext == Next \/ EditSettings

\* A run with the GUI thread beside it.
GuiSpec == Init /\ [][GuiNext]_vars

(***************************************************************************)
(* create_pdf_options on its own, for every state of the widgets and every *)
(* pair of paths.                                                          *)
(***************************************************************************)
\* The paths create_pdf_options may be given.
HeaderPaths == {None} \cup {header_temp(d, k) : d \in OutputDirs, k \in 1..MaxFiles}
FooterPaths == {None} \cup {footer_temp(d, k) : d \in OutputDirs, k \in 1..MaxFiles}

OptionsInit ==
    /\ input_files = [str |-> FALSE, list |-> <<>>]
    /\ output_dir \in OutputDirs
    /\ header_edit = ""
    /\ footer_edit = ""
    /\ page_size_combo \in PageSizes
    /\ margin_spinboxes \in [MarginKeys -> MarginValues]
    /\ encoding_combo \in Encodings
    /\ request = current_settings
    /\ edits = 0
    /\ WindowAtStart
    /\ call = NoCall
    /\ returned = NoResult
    /\ RunInit

\* options = self.create_pdf_options(header_path, footer_path)
BuildOptions ==
    /\ options = NoOptions
    /\ \E hp \in HeaderPaths, fp \in FooterPaths :
          /\ header_path' = hp
          /\ footer_path' = fp
          /\ options' = create_pdf_options(hp, fp)
    /\ UNCHANGED <<outside, unread, rendered, input_files, output_dir, header_edit, footer_edit, pc,
                   is_valid, i, header, footer, raised, disk, events, opened, invoked,
                   proc, outcome, unremoved, faults>>

OptionsSpec == OptionsInit /\ [][BuildOptions]_vars

(***************************************************************************)
(* The output path of a file, on the text of the paths.  A text is a       *)
(* sequence of one-character strings; os.path is posixpath.                *)
(***************************************************************************)
\* Longest file name tried.
MaxName == 4

\* s.rfind(c) + 1: the place of the last c in s, 0 when there is none.
rfind(s, c) ==
    LET ks == {k \in 1..Len(s) : s[k] = c}
    IN  IF ks = {} THEN 0 ELSE CHOOSE k \in ks : \A j \in ks : j <= k

\* s.startswith(prefix)
startswith(s, prefix) == Len(s) >= Len(prefix) /\ SubSeq(s, 1, Len(prefix)) = prefix

\* os.path.basename(p): what follows the last slash.
posix_basename(p) == SubSeq(p, rfind(p, "/") + 1, Len(p))

\* os.path.splitext(p)[0]: p up to its last dot, when that dot follows the
\* last slash and some character of the name before it is no dot.
splitext_root(p) ==
    LET sepIndex == rfind(p, "/")
        dotIndex == rfind(p, ".")
    IN  IF dotIndex > sepIndex /\ \E k \in (sepIndex + 1)..(dotIndex - 1) : p[k] # "."
        THEN SubSeq(p, 1, dotIndex - 1)
        ELSE p

\* os.path.join(a, b)
posix_join(a, b) ==
    IF startswith(b, <<"/">>) THEN b
    ELSE IF a = <<>> \/ a[Len(a)] = "/" THEN a \o b
    ELSE a \o <<"/">> \o b

\* path.split('/')
RECURSIVE split(_)
split(s) ==
    LET ks == {k \in 1..Len(s) : s[k] = "/"}
    IN  IF ks = {} THEN <<s>>
        ELSE LET k == CHOOSE j \in ks : \A l \in ks : j <= l
             IN  <<SubSeq(s, 1, k - 1)>> \o split(SubSeq(s, k + 1, Len(s)))

\* The loop of os.path.normpath over the components: empty ones and '.' are
\* dropped, '..' takes the component before it away.
RECURSIVE new_comps(_, _, _)
new_comps(comps, acc, initial_slashes) ==
    IF comps = <<>> THEN acc
    ELSE LET comp == Head(comps)
             next == IF comp = <<>> \/ comp = <<".">> THEN acc
                     ELSE IF comp # <<".", ".">>
                             \/ (initial_slashes = 0 /\ acc = <<>>)
                             \/ (acc # <<>> /\ acc[Len(acc)] = <<".", ".">>)
                          THEN Append(acc, comp)
                     ELSE IF acc # <<>> THEN SubSeq(acc, 1, Len(acc) - 1)
                     ELSE acc
         IN  new_comps(Tail(comps), next, initial_slashes)

\* '/'.join(comps)
RECURSIVE slash_join(_)
slash_join(comps) ==
    IF comps = <<>> THEN <<>>
    ELSE IF Len(comps) = 1 THEN comps[1]
    ELSE comps[1] \o <<"/">> \o slash_join(Tail(comps))

\* os.path.normpath(path)
posix_normpath(path) ==
    LET initial_slashes ==
            IF ~startswith(path, <<"/">>) THEN 0
            ELSE IF startswith(path, <<"/", "/">>) /\ ~startswith(path, <<"/", "/", "/">>) THEN 2
            ELSE 1
        body == slash_join(new_comps(split(path), <<>>, initial_slashes))
        whole == [k \in 1..initial_slashes |-> "/"] \o body
    IN  IF whole = <<>> THEN <<".">> ELSE whole

\* os.getcwd() of the application.
Cwd == <<"/", "w">>

\* os.path.abspath(path)
posix_abspath(path) ==
    posix_normpath(IF startswith(path, <<"/">>) THEN path ELSE posix_join(Cwd, path))

\* The output name built from the whole file name, extension included.
derive_output_path_keeping_ext(file_path_text, output_dir_text) ==
    LET file_name == posix_basename(file_path_text)
    IN  posix_abspath(posix_join(output_dir_text, file_name \o <<".", "p", "d", "f">>))

\* file_name = os.path.basename(file_path);
\* output_filename = f'{os.path.splitext(file_name)[0]}.pdf';
\* output_path = os.path.abspath(os.path.join(self.output_dir, output_filename))
derive_output_path(file_path_text, output_dir_text) ==
    LET file_name == posix_basename(file_path_text)
        output_name == splitext_root(file_name) \o <<".", "p", "d", "f">>
    IN  posix_abspath(posix_join(output_dir_text, output_name))

\* The file names tried: every text of "r" and "." up to MaxName characters,
\* and report.md.
FileNames ==
    (SeqsUpTo({"r", "."}, MaxName) \ {<<>>})
        \cup {<<"r", "e", "p", "o", "r", "t", ".", "m", "d">>}

\* The directories an input may lie in, each with its closing slash.
InputDirTexts == {<<>>, <<"/", "a", "/">>, <<"/", "b", "/">>, <<"a", "/">>, <<"/", "a", "/", "/">>}

\* The input paths tried.
FilePathTexts == {d \o n : d \in InputDirTexts, n \in FileNames}

\* The output directories tried.
OutputDirTexts ==
    { <<"/", "o", "u", "t">>, <<"/", "o", "u", "t", "/">>, <<"o", "u", "t">>,
      <<"/">>, <<"/", "o", "/", ".", ".", "/", "o", "u", "t">> }

\* The widgets and the thread: everything but the function called on its own.
thread_state ==
    <<page_size_combo, margin_spinboxes, encoding_combo, request, edits, options, rendered,
      input_files, output_dir, header_edit, footer_edit, pc, is_valid, i, header, footer,
      header_path, footer_path, raised, disk, events, opened, invoked, proc, outcome,
      unremoved, unread, faults, window>>

\* The settings widgets are as created and no run has begun.
NoRun ==
    /\ input_files = [str |-> FALSE, list |-> <<>>]
    /\ output_dir \in OutputDirs
    /\ header_edit = ""
    /\ footer_edit = ""
    /\ page_size_combo = "A4"
    /\ margin_spinboxes = DefaultMargins
    /\ encoding_combo = "UTF-8"
    /\ request = current_settings
    /\ edits = 0
    /\ RunInit

\* Everything but the function called is at rest: no thread was started.
NoThread == NoRun /\ WindowAtStart

PathInit ==
    /\ call \in {[fn |-> "output_path", args |-> <<f, d>>] :
                    f \in FilePathTexts, d \in OutputDirTexts}
    /\ returned = NoResult
    /\ NoThread

\* Lines 262-267 of run for one file and one output directory.
DeriveOutputPath ==
    /\ call.fn = "output_path"
    /\ ~returned.done
    /\ returned' = [done |-> TRUE, value |-> derive_output_path(call.args[1], call.args[2])]
    /\ UNCHANGED <<call, thread_state>>

PathSpec == PathInit /\ [][DeriveOutputPath]_vars

(***************************************************************************)
(* Single-file mode: the window hands the input file and the directory of  *)
(* the output file of SingleFileWidget to the thread.                      *)
(***************************************************************************)
\* s.rstrip('/')
RECURSIVE rstrip_slashes(_)
rstrip_slashes(s) ==
    IF s # <<>> /\ s[Len(s)] = "/" THEN rstrip_slashes(SubSeq(s, 1, Len(s) - 1)) ELSE s

\* os.path.dirname(p): p up to its last slash, without closing slashes
\* unless it is made of slashes only.
posix_dirname(p) ==
    LET head == SubSeq(p, 1, rfind(p, "/"))
    IN  IF head # <<>> /\ rstrip_slashes(head) # <<>> THEN rstrip_slashes(head) ELSE head

\* str.lower() on the characters of the texts tried.
lower(s) ==
    [k \in 1..Len(s) |->
        CASE s[k] = "P" -> "p" [] s[k] = "D" -> "d" [] s[k] = "F" -> "f" [] OTHER -> s[k]]

\* s.endswith(suffix)
endswith(s, suffix) ==
    Len(s) >= Len(suffix) /\ SubSeq(s, Len(s) - Len(suffix) + 1, Len(s)) = suffix

DotPdf == <<".", "p", "d", "f">>

\* SingleFileWidget.get_output_file: the text of output_edit, or the input
\* file's directory and base name with .pdf when that text is empty.
get_output_file(input_edit, output_edit) ==
    IF output_edit = <<>> /\ input_edit # <<>>
    THEN posix_join(posix_dirname(input_edit), splitext_root(posix_basename(input_edit)) \o DotPdf)
    ELSE output_edit

\* The output file with its .pdf extension ensured.
with_pdf_extension(output_file) ==
    IF ~endswith(lower(output_file), DotPdf) THEN output_file \o DotPdf ELSE output_file

\* The input files tried in single-file mode (one may be unset).
SingleInputTexts ==
    { <<>>, <<"/", "a", "/", "r", ".", "m", "d">>, <<"r", ".", "m", "d">>,
      <<"/", "a", "/", "r", ".", "r", ".", "m", "d">>, <<"/", "b", "/", "r">> }

\* The texts of output_edit tried (it may be empty).
OutputFileTexts ==
    { <<>>, <<"/", "a", "/", "r", ".", "p", "d", "f">>, <<"/", "o", "/", "r", ".", "p", "d", "f">>,
      <<"/", "o", "/", "s", ".", "p", "d", "f">>, <<"/", "o", "/", "s", ".", "P", "D", "F">>,
      <<"/", "o", "/", "s">>, <<"s", ".", "p", "d", "f">>, <<"/", "s", ".", "p", "d", "f">>,
      <<"o", "/", "r", ".", "p", "d", "f">>, <<"/", "o", "/", "/", "r", ".", "m", "d">>,
      <<"/", "a", "/", "r", ".", "m", "d", ".", "p", "d", "f">> }

SingleFileInit ==
    /\ call \in {[fn |-> "start_single_file_conversion", args |-> <<f, o>>] :
                    f \in SingleInputTexts, o \in OutputFileTexts}
    /\ returned = NoResult
    /\ NoThread

\* MainWindow.start_single_file_conversion up to the start of the thread
\* over [input_file] and the directory of the output file; input_exists,
\* dir_exists and makedirs_ok are what the file system answers.  Where the
\* handler shows a message box and returns, no thread is started and the
\* call has returned nothing.
StartSingleFileConversion ==
    /\ call.fn = "start_single_file_conversion"
    /\ ~returned.done
    /\ \E input_exists \in BOOLEAN, dir_exists \in BOOLEAN, makedirs_ok \in BOOLEAN :
          LET input_file  == call.args[1]
              output_file == with_pdf_extension(get_output_file(call.args[1], call.args[2]))
              dir         == posix_dirname(output_file)
          IN  IF input_file = <<>> \/ ~input_exists
              THEN returned' = [done |-> TRUE, value |-> <<>>] /\ UNCHANGED call
              ELSE IF (dir = <<>> \/ ~dir_exists) /\ (dir = <<>> \/ ~makedirs_ok)
              THEN returned' = [done |-> TRUE, value |-> <<>>] /\ UNCHANGED call
              ELSE /\ call' = [fn |-> "output_path", args |-> <<input_file, dir, call.args[2]>>]
                   /\ UNCHANGED returned
    /\ UNCHANGED thread_state

SingleFileSpec == SingleFileInit /\ [][StartSingleFileConversion \/ DeriveOutputPath]_vars

(***************************************************************************)
(* The main window and its threads: the start button, the renderer path of *)
(* the manager and of the pdfkit configuration, and of each thread what    *)
(* the window and the renderer see of it.                                  *)
(***************************************************************************)
\* Most threads started in a session.
MaxRuns == 2

\* Everything but the window.
beside_window ==
    <<page_size_combo, margin_spinboxes, encoding_combo, request, edits, options, rendered,
      input_files, output_dir, header_edit, footer_edit, pc, is_valid, i, header, footer,
      header_path, footer_path, raised, disk, events, opened, invoked, proc, outcome,
      unremoved, unread, faults, call, returned>>

\* The settings widgets and the state of run.
thread_state_of_run ==
    <<page_size_combo, margin_spinboxes, encoding_combo, request, edits, options, rendered,
      input_files, output_dir, header_edit, footer_edit, pc, is_valid, i, header, footer,
      header_path, footer_path, raised, disk, events, opened, invoked, proc, outcome,
      unremoved, unread, faults>>

\* WkHtmlToPdfManager.find_wkhtmltopdf: the path of the manager when it is
\* set and exists; else what the search finds, which becomes the path of
\* the manager; else None.
find_wkhtmltopdf(manager_path, path_exists, found) ==
    IF manager_path # NoPath /\ path_exists THEN [path |-> manager_path, manager |-> manager_path]
    ELSE IF found # NoPath THEN [path |-> found, manager |-> found]
    ELSE [path |-> NoPath, manager |-> manager_path]

\* wk_manager.validate_wkhtmltopdf(): the path is that of the manager or,
\* without one, what find_wkhtmltopdf returns; then the checks of
\* validate_wkhtmltopdf above.
manager_validate(manager_path, path_exists, found, probe) ==
    LET sought == IF manager_path # NoPath
                  THEN [path |-> manager_path, manager |-> manager_path]
                  ELSE find_wkhtmltopdf(manager_path, path_exists, found)
    IN  [path    |-> sought.path,
         manager |-> sought.manager,
         ok      |-> validate_wkhtmltopdf(sought.path # NoPath, path_exists, probe)]

\* A thread the window has just started.
NewThread == [state |-> "started", validated |-> NoPath, used |-> {}, terminal |-> ""]

\* The module is loaded: the manager reads its configuration file,
\* WKHTMLTOPDF_PATH = wk_manager.find_wkhtmltopdf() and config is built over it;
\* the window is shown with its start button enabled.
WindowInit ==
    /\ \E loaded \in {NoPath, FoundBinary, ChosenBinary}, path_exists \in BOOLEAN,
          found \in {NoPath, FoundBinary} :
          LET sought == find_wkhtmltopdf(loaded, path_exists, found)
          IN  /\ wk_manager = sought.manager
              /\ config = sought.path
    /\ convert_button = TRUE
    /\ threads = <<>>
    /\ selected_files = <<>>
    /\ file_list = <<>>
    /\ call = NoCall
    /\ returned = NoResult
    /\ NoRun

\* start_conversion with check_wkhtmltopdf_and_convert not disabling the
\* start button.
StartConversionKeepsButton ==
    /\ convert_button
    /\ Len(threads) < MaxRuns
    /\ \E ready \in BOOLEAN, path_exists \in BOOLEAN, found \in {NoPath, FoundBinary},
          probe \in Probes, reply \in {"Yes", "No"}, wk_path \in {NoPath, ChosenBinary} :
          LET v == manager_validate(wk_manager, path_exists, found, probe)
          IN  IF ~ready
              THEN UNCHANGED <<wk_manager, threads>>
              ELSE IF v.ok
              THEN /\ wk_manager' = v.manager
                   /\ threads' = Append(threads, NewThread)
              ELSE IF reply = "Yes" /\ wk_path # NoPath
              THEN /\ wk_manager' = wk_path
                   /\ threads' = Append(threads, NewThread)
              ELSE /\ wk_manager' = v.manager
                   /\ UNCHANGED threads
    /\ UNCHANGED <<convert_button, config, selected_files, file_list, beside_window>>

\* A click on the start button: start_conversion, the checks of
\* start_single_file_conversion or start_batch_conversion (ready: they
\* pass), and check_wkhtmltopdf_and_convert: the manager validates the
\* renderer; when that fails the user may point to a binary (reply,
\* wk_path), which becomes the path of the manager; then the button is
\* disabled and a thread is created and started.
StartConversion ==
    /\ convert_button
    /\ Len(threads) < MaxRuns
    /\ \E ready \in BOOLEAN, path_exists \in BOOLEAN, found \in {NoPath, FoundBinary},
          probe \in Probes, reply \in {"Yes", "No"}, wk_path \in {NoPath, ChosenBinary} :
          LET v == manager_validate(wk_manager, path_exists, found, probe)
          IN  IF ~ready
              THEN UNCHANGED <<wk_manager, convert_button, threads>>
              ELSE IF v.ok
              THEN /\ wk_manager' = v.manager
                   /\ convert_button' = FALSE
                   /\ threads' = Append(threads, NewThread)
              ELSE IF reply = "Yes" /\ wk_path # NoPath
              THEN /\ wk_manager' = wk_path
                   /\ convert_button' = FALSE
                   /\ threads' = Append(threads, NewThread)
              ELSE /\ wk_manager' = v.manager
                   /\ UNCHANGED <<convert_button, threads>>
    /\ UNCHANGED <<config, selected_files, file_list, beside_window>>

\* The head of run in thread k: wk_manager.validate_wkhtmltopdf(); when it
\* fails the error signal is emitted and run returns.
ThreadValidates ==
    \E k \in 1..Len(threads) :
          /\ threads[k].state = "started"
          /\ \E path_exists \in BOOLEAN, found \in {NoPath, FoundBinary}, probe \in Probes :
                LET v == manager_validate(wk_manager, path_exists, found, probe)
                IN  /\ wk_manager' = v.manager
                    /\ threads' = [threads EXCEPT ![k] =
                          IF v.ok THEN [@ EXCEPT !.state = "converting", !.validated = v.path]
                          ELSE [@ EXCEPT !.state = "signalled", !.terminal = "error"]]
          /\ UNCHANGED <<config, convert_button, selected_files, file_list, beside_window>>

\* pdfkit.from_string(..., configuration=config) in thread k: the renderer
\* run is that of config; with config None pdfkit looks wkhtmltopdf up by
\* name ("on_path": what `which wkhtmltopdf` finds) and raises IOError
\* when there is none.
ThreadInvokes ==
    \E k \in 1..Len(threads) :
          /\ threads[k].state = "converting"
          /\ \E looked_up \in {NoPath, "on_path"} :
                LET renderer == IF config # NoPath THEN config ELSE looked_up
                IN  threads' = [threads EXCEPT ![k].used =
                                    IF renderer = NoPath THEN @ ELSE @ \cup {renderer}]
          /\ UNCHANGED <<wk_manager, config, convert_button, selected_files, file_list, beside_window>>

\* run of thread k emits its terminal signal: finished after the loop, or
\* error from the empty list or the outer handler.
ThreadEnds ==
    \E k \in 1..Len(threads) :
          /\ threads[k].state = "converting"
          /\ \E terminal \in {"finished", "error"} :
                threads' = [threads EXCEPT ![k] = [@ EXCEPT !.state = "signalled", !.terminal = terminal]]
          /\ UNCHANGED <<wk_manager, config, convert_button, selected_files, file_list, beside_window>>

\* conversion_finished or show_error for the terminal signal of thread k:
\* the start button is enabled again.
HandleTerminal ==
    \E k \in 1..Len(threads) :
          /\ threads[k].state = "signalled"
          /\ convert_button' = TRUE
          /\ threads' = [threads EXCEPT ![k].state = "handled"]
          /\ UNCHANGED <<wk_manager, config, selected_files, file_list, beside_window>>

WindowNext ==
    \/ StartConversion
    \/ ThreadValidates
    \/ ThreadInvokes
    \/ ThreadEnds
    \/ HandleTerminal

WindowSpec == WindowInit /\ [][WindowNext]_vars

(***************************************************************************)
(* BatchConvertWidget: selected_files and the rows of file_list.  An item  *)
(* of file_list is [text, toolTip, selected].                              *)
(***************************************************************************)
\* Longest list of selected files tried.
MaxSelected == 4

\* Most files a file dialog returns at once.
MaxPicked == 2

\* The folders the user may pick; "c" holds no Markdown file.
Folders == {"a", "b", "c"}

\* md_files of add_folder: the Markdown files os.walk finds under a folder.
RECURSIVE md_files(_, _)
md_files(folder_path, k) ==
    IF k > MaxFiles THEN <<>>
    ELSE (IF PathPool[k].dir = folder_path THEN <<PathPool[k]>> ELSE <<>>)
             \o md_files(folder_path, k + 1)

\* QListWidgetItem(display_name) with item.setToolTip(file_path)
QListWidgetItem(path) == [text |-> basename(path), toolTip |-> path, selected |-> FALSE]

\* file_path not in self.selected_files
not_in(path, files) == \A k \in 1..Len(files) : files[k] # path

\* The loop of add_files and add_folder over the paths found, without its
\* test on selected_files: every path is appended.
RECURSIVE add_paths_unchecked(_, _, _)
add_paths_unchecked(file_paths, files, items) ==
    IF file_paths = <<>> THEN [files |-> files, items |-> items]
    ELSE add_paths_unchecked(Tail(file_paths), Append(files, Head(file_paths)),
                             Append(items, QListWidgetItem(Head(file_paths))))

\* The loop of add_files and add_folder over the paths found: a path not
\* yet in selected_files is appended to it and gets an item at the end of
\* file_list.
RECURSIVE add_paths(_, _, _)
add_paths(file_paths, files, items) ==
    IF file_paths = <<>> THEN [files |-> files, items |-> items]
    ELSE IF not_in(Head(file_paths), files)
    THEN add_paths(Tail(file_paths), Append(files, Head(file_paths)),
                   Append(items, QListWidgetItem(Head(file_paths))))
    ELSE add_paths(Tail(file_paths), files, items)

\* list.remove(x): the list without the first x.
list_remove(l, x) ==
    LET k == CHOOSE j \in 1..Len(l) : l[j] = x /\ \A h \in 1..(j - 1) : l[h] # x
    IN  SubSeq(l, 1, k - 1) \o SubSeq(l, k + 1, Len(l))

\* QListWidget.takeItem(row), rows counted from 1
takeItem(items, row) == SubSeq(items, 1, row - 1) \o SubSeq(items, row + 1, Len(items))

\* The loop of remove_selected_files over the selected items, each named
\* by the row it had when the loop began; taken holds those already taken,
\* so file_list.row(item) is the first row less the taken rows above it.
RECURSIVE remove_items(_, _, _, _)
remove_items(selected_items, taken, files, items) ==
    IF selected_items = <<>> THEN [files |-> files, items |-> items]
    ELSE LET item      == Head(selected_items)
             row       == item - Cardinality({t \in taken : t < item})
             path      == files[row]
         IN  remove_items(Tail(selected_items), taken \cup {item},
                          list_remove(files, path), takeItem(items, row))

\* The rows of the selected items.
selectedRows == {k \in 1..Len(file_list) : file_list[k].selected}

\* The batch page as created: no file selected.
WidgetInit ==
    /\ selected_files = <<>>
    /\ file_list = <<>>
    /\ wk_manager = FoundBinary
    /\ config = FoundBinary
    /\ convert_button = TRUE
    /\ threads = <<>>
    /\ call = NoCall
    /\ returned = NoResult
    /\ NoRun

\* AddFiles with every path appended, listed or not.
AddFilesUnchecked ==
    /\ \E file_paths \in {q \in SeqsUpTo(InputPaths, MaxPicked) : NoDuplicates(q)} :
          LET added == add_paths_unchecked(file_paths, selected_files, file_list)
          IN  /\ Len(added.files) <= MaxSelected
              /\ selected_files' = added.files
              /\ file_list' = added.items
              /\ call' = [fn |-> "add_files", args |-> <<file_paths>>]
    /\ UNCHANGED <<wk_manager, config, convert_button, threads, returned, thread_state_of_run>>

\* BatchConvertWidget.add_files: the paths the file dialog returns (none
\* when it is cancelled).
AddFiles ==
    /\ \E file_paths \in {q \in SeqsUpTo(InputPaths, MaxPicked) : NoDuplicates(q)} :
          LET added == add_paths(file_paths, selected_files, file_list)
          IN  /\ Len(added.files) <= MaxSelected
              /\ selected_files' = added.files
              /\ file_list' = added.items
              /\ call' = [fn |-> "add_files", args |-> <<file_paths>>]
    /\ UNCHANGED <<wk_manager, config, convert_button, threads, returned, thread_state_of_run>>

\* BatchConvertWidget.add_folder: the Markdown files under the folder
\* picked; with none of them, a message and return.
AddFolder ==
    /\ \E folder_path \in Folders :
          LET added == add_paths(md_files(folder_path, 1), selected_files, file_list)
          IN  /\ Len(added.files) <= MaxSelected
              /\ selected_files' = added.files
              /\ file_list' = added.items
              /\ call' = [fn |-> "add_folder", args |-> <<folder_path>>]
    /\ UNCHANGED <<wk_manager, config, convert_button, threads, returned, thread_state_of_run>>

\* The user selects rows of the list (ExtendedSelection).
SelectRows ==
    /\ \E rows \in SUBSET (1..Len(file_list)) :
          /\ file_list' = [k \in 1..Len(file_list) |-> [file_list[k] EXCEPT !.selected = k \in rows]]
          /\ call' = [fn |-> "select", args |-> <<rows>>]
    /\ UNCHANGED <<selected_files, wk_manager, config, convert_button, threads, returned,
                   thread_state_of_run>>

\* BatchConvertWidget.remove_selected_files: selectedItems() in whatever
\* order Qt returns them; with none selected, a warning and return.
RemoveSelectedFiles ==
    /\ \E selected_items \in {q \in SeqsUpTo(selectedRows, Cardinality(selectedRows)) :
                                 Len(q) = Cardinality(selectedRows) /\ NoDuplicates(q)} :
          LET left == remove_items(selected_items, {}, selected_files, file_list)
          IN  /\ selected_files' = left.files
              /\ file_list' = left.items
              /\ call' = [fn |-> "remove_selected_files", args |-> <<selected_items>>]
    /\ UNCHANGED <<wk_manager, config, convert_button, threads, returned, thread_state_of_run>>

\* BatchConvertWidget.clear_files: nothing with no file selected; else the
\* lists are cleared when the user answers Yes.
ClearFiles ==
    /\ selected_files # <<>>
    /\ \E reply \in {"Yes", "No"} :
          /\ selected_files' = IF reply = "Yes" THEN <<>> ELSE selected_files
          /\ file_list' = IF reply = "Yes" THEN <<>> ELSE file_list
          /\ call' = [fn |-> "clear_files", args |-> <<reply>>]
    /\ UNCHANGED <<wk_manager, config, convert_button, threads, returned, thread_state_of_run>>

WidgetNext == AddFiles \/ AddFolder \/ SelectRows \/ RemoveSelectedFiles \/ ClearFiles

WidgetSpec == WidgetInit /\ [][WidgetNext]_vars

(***************************************************************************)
(* The math rewriting of simplify_math_formula and process_math_formulas.  *)
(* A text is a sequence of tokens: one-character strings, and, in what the *)
(* rewriting writes, one token for each HTML tag, HTML entity or non-ASCII *)
(* character ("U+222B" is the integral sign).  No pattern of the source    *)
(* matches inside such a token.  A regular expression is the sequence of   *)
(* its items: a literal character, or one of the groups below.             *)
(***************************************************************************)
Digits == {"0", "1", "2", "3", "4", "5", "6", "7", "8", "9"}
Letters ==
    {"a", "b", "c", "d", "e", "f", "g", "h", "i", "j", "k", "l", "m", "n", "o", "p", "q",
     "r", "s", "t", "u", "v", "w", "x", "y", "z", "A", "B", "C", "D", "E", "F", "G", "H",
     "I", "J", "K", "L", "M", "N", "O", "P", "Q", "R", "S", "T", "U", "V", "W", "X", "Y", "Z"}

\* The groups that take one character or more, as many as they can; in every
\* pattern of the source the item after such a group is a character the group
\* refuses, or the end of the pattern.
PlusGroups == {"(\\d+)", "([^}]+)", "([a-zA-Z0-9]+)"}

\* Whether an item of a pattern takes the token c.
accepts(item, c, dotall) ==
    CASE item = "(\\d+)" -> c \in Digits
      [] item = "([^}]+)" -> c # "}"
      [] item \in {"([a-zA-Z0-9]+)", "([a-zA-Z0-9])"} -> c \in Letters \cup Digits
      [] item = "(.*?)" -> dotall \/ c # "\n"
      [] OTHER -> c = item

\* How many tokens from pos on the group takes.
RECURSIVE run(_, _, _)
run(item, s, pos) ==
    IF pos <= Len(s) /\ accepts(item, s[pos], FALSE) THEN 1 + run(item, s, pos + 1) ELSE 0

NoMatch == [ok |-> FALSE, end |-> 0, groups |-> <<>>]

\* re.match of the items pat[pi..] at pos: where the match ends and the
\* groups it took.  (.*?) takes as few tokens as let the rest match.
RECURSIVE match_at(_, _, _, _, _, _)
RECURSIVE match_lazy(_, _, _, _, _, _, _)
match_at(pat, pi, s, pos, groups, dotall) ==
    IF pi > Len(pat) THEN [ok |-> TRUE, end |-> pos, groups |-> groups]
    ELSE LET item == pat[pi]
         IN  IF item = "(.*?)" THEN match_lazy(pat, pi, s, pos, 0, groups, dotall)
             ELSE IF item \in PlusGroups
             THEN LET n == run(item, s, pos)
                  IN  IF n = 0 THEN NoMatch
                      ELSE match_at(pat, pi + 1, s, pos + n,
                                    Append(groups, SubSeq(s, pos, pos + n - 1)), dotall)
             ELSE IF pos > Len(s) \/ ~accepts(item, s[pos], dotall) THEN NoMatch
             ELSE match_at(pat, pi + 1, s, pos + 1,
                           IF item = "([a-zA-Z0-9])" THEN Append(groups, <<s[pos]>>) ELSE groups,
                           dotall)

match_lazy(pat, pi, s, pos, n, groups, dotall) ==
    LET rest == match_at(pat, pi + 1, s, pos + n,
                         Append(groups, SubSeq(s, pos, pos + n - 1)), dotall)
    IN  IF rest.ok THEN rest
        ELSE IF pos + n <= Len(s) /\ accepts("(.*?)", s[pos + n], dotall)
        THEN match_lazy(pat, pi, s, pos, n + 1, groups, dotall)
        ELSE NoMatch

\* The replacement text: \1 and \2 stand for the groups.
RECURSIVE expand(_, _)
expand(template, groups) ==
    IF template = <<>> THEN <<>>
    ELSE (CASE Head(template) = "\\1" -> groups[1]
            [] Head(template) = "\\2" -> groups[2]
            [] OTHER -> <<Head(template)>>) \o expand(Tail(template), groups)

\* re.sub(pattern, replacement, s): the matches from left to right, none
\* overlapping another; what no match covers stays.
RECURSIVE re_sub_from(_, _, _, _)
re_sub_from(pat, template, s, pos) ==
    IF pos > Len(s) THEN <<>>
    ELSE LET m == match_at(pat, 1, s, pos, <<>>, FALSE)
         IN  IF m.ok THEN expand(template, m.groups) \o re_sub_from(pat, template, s, m.end)
             ELSE <<s[pos]>> \o re_sub_from(pat, template, s, pos + 1)

re_sub(pat, template, s) == re_sub_from(pat, template, s, 1)

\* The substitutions of simplify_math_formula in the order it applies them:
\* lines 733-765, the replacements table of lines 768-819, lines 826-830.
Rules ==
    << [p |-> <<"e", "^", "-", "([a-zA-Z0-9]+)">>,
        r |-> <<"e", "<sup>", "-", "\\1", "</sup>">>],
       [p |-> <<"e", "^", "{", "([^}]+)", "}">>,
        r |-> <<"e", "<sup>", "\\1", "</sup>">>],
       [p |-> <<"_", "{", "([^}]+)", "}", "^", "{", "([^}]+)", "}">>,
        r |-> <<"<sub>", "\\1", "</sub>", "<sup>", "\\2", "</sup>">>],
       [p |-> <<"^", "{", "([^}]+)", "}", "_", "{", "([^}]+)", "}">>,
        r |-> <<"<sup>", "\\1", "</sup>", "<sub>", "\\2", "</sub>">>],
       [p |-> <<"\\", "f", "r", "a", "c", "{", "([^}]+)", "}", "{", "([^}]+)", "}">>,
        r |-> <<"<span class=\"fraction\">", "<span class=\"numerator\">", "\\1", "</span>", "<span>", "\\2", "</span>", "</span>">>],
       [p |-> <<"(\\d+)", "/", "(\\d+)">>,
        r |-> <<"<sup>", "\\1", "</sup>", "&frasl;", "<sub>", "\\2", "</sub>">>],
       [p |-> <<"\\", "s", "u", "m", "_", "{", "([^}]+)", "}", "^", "{", "([^}]+)", "}">>,
        r |-> <<"U+2211", "<sub>", "\\1", "</sub>", "<sup>", "\\2", "</sup>">>],
       [p |-> <<"\\", "i", "n", "t", "_", "{", "([^}]+)", "}", "^", "{", "([^}]+)", "}">>,
        r |-> <<"U+222B", "<sub>", "\\1", "</sub>", "<sup>", "\\2", "</sup>">>],
       [p |-> <<"\\", "s", "q", "r", "t", "[", "(\\d+)", "]", "{", "([^}]+)", "}">>,
        r |-> <<"<sup>", "\\1", "</sup>", "U+221A", "\\2">>],
       [p |-> <<"_", "{", "([^}]+)", "}", "^", "{", "([^}]+)", "}">>,
        r |-> <<"<sub>", "\\1", "</sub>", "<sup>", "\\2", "</sup>">>],
       [p |-> <<"^", "{", "([^}]+)", "}", "_", "{", "([^}]+)", "}">>,
        r |-> <<"<sup>", "\\1", "</sup>", "<sub>", "\\2", "</sub>">>],
       [p |-> <<"\\", "i", "n", "t">>,
        r |-> <<"U+222B">>],
       [p |-> <<"\\", "s", "u", "m">>,
        r |-> <<"U+2211">>],
       [p |-> <<"\\", "p", "r", "o", "d">>,
        r |-> <<"U+220F">>],
       [p |-> <<"\\", "i", "n", "f", "t", "y">>,
        r |-> <<"U+221E">>],
       [p |-> <<"\\", "p", "m">>,
        r |-> <<"U+00B1">>],
       [p |-> <<"\\", "t", "i", "m", "e", "s">>,
        r |-> <<"U+00D7">>],
       [p |-> <<"\\", "c", "d", "o", "t">>,
        r |-> <<"U+00B7">>],
       [p |-> <<"\\", "l", "e", "q">>,
        r |-> <<"U+2264">>],
       [p |-> <<"\\", "g", "e", "q">>,
        r |-> <<"U+2265">>],
       [p |-> <<"\\", "n", "e", "q">>,
        r |-> <<"U+2260">>],
       [p |-> <<"\\", "a", "p", "p", "r", "o", "x">>,
        r |-> <<"U+2248">>],
       [p |-> <<"\\", "s", "i", "n">>,
        r |-> <<"s", "i", "n">>],
       [p |-> <<"\\", "c", "o", "s">>,
        r |-> <<"c", "o", "s">>],
       [p |-> <<"\\", "t", "a", "n">>,
        r |-> <<"t", "a", "n">>],
       [p |-> <<"\\", "l", "o", "g">>,
        r |-> <<"l", "o", "g">>],
       [p |-> <<"\\", "l", "n">>,
        r |-> <<"l", "n">>],
       [p |-> <<"\\", "l", "i", "m">>,
        r |-> <<"l", "i", "m">>],
       [p |-> <<"\\", "b", "a", "r", "{", "([^}]+)", "}">>,
        r |-> <<"<span style=\"text-decoration: overline;\">", "\\1", "</span>">>],
       [p |-> <<"\\", "p", "a", "r", "t", "i", "a", "l">>,
        r |-> <<"U+2202">>],
       [p |-> <<"\\", "r", "i", "g", "h", "t", "a", "r", "r", "o", "w">>,
        r |-> <<"U+2192">>],
       [p |-> <<"\\", "v", "e", "c", "{", "([^}]+)", "}">>,
        r |-> <<"<span style=\"text-decoration: overline;\">", "\\1", "</span>">>],
       [p |-> <<"\\", "b", "e", "g", "i", "n", "{", "p", "m", "a", "t", "r", "i", "x", "}">>,
        r |-> <<"(">>],
       [p |-> <<"\\", "e", "n", "d", "{", "p", "m", "a", "t", "r", "i", "x", "}">>,
        r |-> <<")">>],
       [p |-> <<"\\", "d", "e", "t">>,
        r |-> <<"d", "e", "t">>],
       [p |-> <<"\\", "a", "l", "p", "h", "a">>,
        r |-> <<"U+03B1">>],
       [p |-> <<"\\", "b", "e", "t", "a">>,
        r |-> <<"U+03B2">>],
       [p |-> <<"\\", "g", "a", "m", "m", "a">>,
        r |-> <<"U+03B3">>],
       [p |-> <<"\\", "d", "e", "l", "t", "a">>,
        r |-> <<"U+03B4">>],
       [p |-> <<"\\", "t", "h", "e", "t", "a">>,
        r |-> <<"U+03B8">>],
       [p |-> <<"\\", "l", "a", "m", "b", "d", "a">>,
        r |-> <<"U+03BB">>],
       [p |-> <<"\\", "m", "u">>,
        r |-> <<"U+03BC">>],
       [p |-> <<"\\", "p", "i">>,
        r |-> <<"U+03C0">>],
       [p |-> <<"\\", "s", "i", "g", "m", "a">>,
        r |-> <<"U+03C3">>],
       [p |-> <<"\\", "p", "h", "i">>,
        r |-> <<"U+03C6">>],
       [p |-> <<"\\", "o", "m", "e", "g", "a">>,
        r |-> <<"U+03C9">>],
       [p |-> <<"\\", "t", "o">>,
        r |-> <<"U+2192">>],
       [p |-> <<"\\", "i", "n">>,
        r |-> <<"U+2208">>],
       [p |-> <<"\\", "s", "u", "b", "s", "e", "t">>,
        r |-> <<"U+2282">>],
       [p |-> <<"\\", "c", "u", "p">>,
        r |-> <<"U+222A">>],
       [p |-> <<"\\", "c", "a", "p">>,
        r |-> <<"U+2229">>],
       [p |-> <<"\\", "s", "q", "r", "t">>,
        r |-> <<"U+221A">>],
       [p |-> <<"e", "^", "x">>,
        r |-> <<"e", "U+02E3">>],
       [p |-> <<"^", "2">>,
        r |-> <<"U+00B2">>],
       [p |-> <<"^", "3">>,
        r |-> <<"U+00B3">>],
       [p |-> <<"_", "{", "([^}]+)", "}">>,
        r |-> <<"<sub>", "\\1", "</sub>">>],
       [p |-> <<"_", "([a-zA-Z0-9])">>,
        r |-> <<"<sub>", "\\1", "</sub>">>],
       [p |-> <<"^", "{", "([^}]+)", "}">>,
        r |-> <<"<sup>", "\\1", "</sup>">>],
       [p |-> <<"^", "([a-zA-Z0-9])">>,
        r |-> <<"<sup>", "\\1", "</sup>">>],
       [p |-> <<"H", "_", "2", "O">>,
        r |-> <<"H", "U+2082", "O">>],
       [p |-> <<"H", "_", "2">>,
        r |-> <<"H", "U+2082">>],
       [p |-> <<"O", "_", "2">>,
        r |-> <<"O", "U+2082">>],
       [p |-> <<"C", "H", "_", "4">>,
        r |-> <<"C", "H", "U+2084">>],
       [p |-> <<"C", "O", "_", "2">>,
        r |-> <<"C", "O", "U+2082">>] >>

\* for pattern, replacement in ...: result = re.sub(pattern, replacement, result)
RECURSIVE apply_rules(_, _, _)
apply_rules(rules, k, formula) ==
    IF k > Len(rules) THEN formula
    ELSE LET replaced == re_sub(rules[k].p, rules[k].r, formula)
         IN  \* the text is complete before the next substitution starts
             IF Len(replaced) >= 0 THEN apply_rules(rules, k + 1, replaced) ELSE replaced

\* ConvertThread.simplify_math_formula(formula)
simplify_math_formula(formula) == apply_rules(Rules, 1, formula)

(***************************************************************************)
(* simplify_math_formula on its own, on a formula and then on what it      *)
(* returned for it.                                                        *)
(***************************************************************************)
\* Most pieces of a formula.
MaxPieces == 5

\* The symbol table of section 4.1g of the specification: the name of each
\* command and the character it stands for.
SymbolTable ==
    { [name |-> <<"i", "n", "t">>, symbol |-> "U+222B"],
      [name |-> <<"s", "u", "m">>, symbol |-> "U+2211"],
      [name |-> <<"p", "r", "o", "d">>, symbol |-> "U+220F"],
      [name |-> <<"i", "n", "f", "t", "y">>, symbol |-> "U+221E"],
      [name |-> <<"p", "m">>, symbol |-> "U+00B1"],
      [name |-> <<"t", "i", "m", "e", "s">>, symbol |-> "U+00D7"],
      [name |-> <<"c", "d", "o", "t">>, symbol |-> "U+00B7"],
      [name |-> <<"l", "e", "q">>, symbol |-> "U+2264"],
      [name |-> <<"g", "e", "q">>, symbol |-> "U+2265"],
      [name |-> <<"n", "e", "q">>, symbol |-> "U+2260"],
      [name |-> <<"a", "p", "p", "r", "o", "x">>, symbol |-> "U+2248"],
      [name |-> <<"p", "a", "r", "t", "i", "a", "l">>, symbol |-> "U+2202"],
      [name |-> <<"r", "i", "g", "h", "t", "a", "r", "r", "o", "w">>, symbol |-> "U+2192"],
      [name |-> <<"t", "o">>, symbol |-> "U+2192"],
      [name |-> <<"i", "n">>, symbol |-> "U+2208"],
      [name |-> <<"s", "u", "b", "s", "e", "t">>, symbol |-> "U+2282"],
      [name |-> <<"c", "u", "p">>, symbol |-> "U+222A"],
      [name |-> <<"c", "a", "p">>, symbol |-> "U+2229"],
      [name |-> <<"s", "q", "r", "t">>, symbol |-> "U+221A"],
      [name |-> <<"a", "l", "p", "h", "a">>, symbol |-> "U+03B1"],
      [name |-> <<"b", "e", "t", "a">>, symbol |-> "U+03B2"],
      [name |-> <<"g", "a", "m", "m", "a">>, symbol |-> "U+03B3"],
      [name |-> <<"d", "e", "l", "t", "a">>, symbol |-> "U+03B4"],
      [name |-> <<"e", "p", "s", "i", "l", "o", "n">>, symbol |-> "U+03B5"],
      [name |-> <<"z", "e", "t", "a">>, symbol |-> "U+03B6"],
      [name |-> <<"e", "t", "a">>, symbol |-> "U+03B7"],
      [name |-> <<"t", "h", "e", "t", "a">>, symbol |-> "U+03B8"],
      [name |-> <<"i", "o", "t", "a">>, symbol |-> "U+03B9"],
      [name |-> <<"k", "a", "p", "p", "a">>, symbol |-> "U+03BA"],
      [name |-> <<"l", "a", "m", "b", "d", "a">>, symbol |-> "U+03BB"],
      [name |-> <<"m", "u">>, symbol |-> "U+03BC"],
      [name |-> <<"n", "u">>, symbol |-> "U+03BD"],
      [name |-> <<"x", "i">>, symbol |-> "U+03BE"],
      [name |-> <<"p", "i">>, symbol |-> "U+03C0"],
      [name |-> <<"r", "h", "o">>, symbol |-> "U+03C1"],
      [name |-> <<"s", "i", "g", "m", "a">>, symbol |-> "U+03C3"],
      [name |-> <<"t", "a", "u">>, symbol |-> "U+03C4"],
      [name |-> <<"u", "p", "s", "i", "l", "o", "n">>, symbol |-> "U+03C5"],
      [name |-> <<"p", "h", "i">>, symbol |-> "U+03C6"],
      [name |-> <<"c", "h", "i">>, symbol |-> "U+03C7"],
      [name |-> <<"p", "s", "i">>, symbol |-> "U+03C8"],
      [name |-> <<"o", "m", "e", "g", "a">>, symbol |-> "U+03C9"] }

\* The pieces of a sequence of texts, one after the other.
RECURSIVE flatten(_)
flatten(texts) == IF texts = <<>> THEN <<>> ELSE Head(texts) \o flatten(Tail(texts))

\* The chemical formulas of the specification and their forms with Unicode
\* subscripts.
ChemicalTable ==
    { [name |-> <<"H", "_", "2", "O">>, form |-> <<"H", "U+2082", "O">>],
      [name |-> <<"H", "_", "2">>, form |-> <<"H", "U+2082">>],
      [name |-> <<"O", "_", "2">>, form |-> <<"O", "U+2082">>],
      [name |-> <<"C", "H", "_", "4">>, form |-> <<"C", "H", "U+2084">>],
      [name |-> <<"C", "O", "_", "2">>, form |-> <<"C", "O", "U+2082">>] }

\* The formulas tried: every command of the table, every chemical formula,
\* and every text of up to MaxPieces pieces.
Formulas ==
    {<<"\\">> \o e.name : e \in SymbolTable}
        \cup {e.name : e \in ChemicalTable}
        \cup {flatten(q) : q \in SeqsUpTo({<<"x">>, <<"^", "{">>, <<"}">>}, MaxPieces)}

SimplifyInit ==
    /\ call \in {[fn |-> "simplify_math_formula", args |-> <<f, "formula">>] : f \in Formulas}
    /\ returned = NoResult
    /\ NoThread

\* formula = self.simplify_math_formula(formula)
Simplify ==
    /\ call.fn = "simplify_math_formula"
    /\ ~returned.done
    /\ returned' = [done |-> TRUE, value |-> simplify_math_formula(call.args[1])]
    /\ UNCHANGED <<call, thread_state>>

\* The text simplify_math_formula returned is given to it again.
SimplifyOutput ==
    /\ call.fn = "simplify_math_formula"
    /\ call.args[2] = "formula"
    /\ returned.done
    /\ call' = [fn |-> "simplify_math_formula", args |-> <<returned.value, "output">>]
    /\ returned' = NoResult
    /\ UNCHANGED thread_state

SimplifySpec == SimplifyInit /\ [][Simplify \/ SimplifyOutput]_vars

(***************************************************************************)
(* convert_markdown_with_math: the Markdown library is called on the       *)
(* source, the formulas of the source are rewritten, and the library is    *)
(* called again on the rewritten source.  Of Markdown the sources tried    *)
(* here use lines, blank lines and '#' headings; the HTML is the sequence  *)
(* of its elements.                                                        *)
(***************************************************************************)
\* Most pieces of a Markdown source.
MaxParts == 5

\* md_extensions of convert_markdown_with_math and of process_math_formulas
FirstExtensions == {"extra", "codehilite", "toc", "nl2br", "sane_lists"}
SecondExtensions == {"extra", "codehilite", "nl2br", "sane_lists"}

\* text.split('\n')
RECURSIVE lines_of(_)
lines_of(text) ==
    LET ks == {k \in 1..Len(text) : text[k] = "\n"}
    IN  IF ks = {} THEN <<text>>
        ELSE LET k == CHOOSE j \in ks : \A l \in ks : j <= l
             IN  <<SubSeq(text, 1, k - 1)>> \o lines_of(SubSeq(text, k + 1, Len(text)))

\* How many of the first tokens of a line are c.
RECURSIVE leading(_, _)
leading(line, c) ==
    IF line # <<>> /\ Head(line) = c THEN 1 + leading(Tail(line), c) ELSE 0

\* How many of the last tokens of a line are c.
RECURSIVE trailing(_, _)
trailing(line, c) ==
    IF line # <<>> /\ line[Len(line)] = c THEN 1 + trailing(SubSeq(line, 1, Len(line) - 1), c) ELSE 0

\* line.strip() for the blank character
strip_blanks(line) == SubSeq(line, leading(line, " ") + 1, Len(line) - trailing(line, " "))

\* A line that begins with '#' is a heading: its level is the number of its
\* first '#' (at most 6), its text what follows without the closing '#'.
heading(line, extensions) ==
    LET level == IF leading(line, "#") > 6 THEN 6 ELSE leading(line, "#")
        rest  == SubSeq(line, level + 1, Len(line))
        open  == SubSeq(rest, 1, Len(rest) - trailing(rest, "#"))
    IN  [tag |-> "h", level |-> level, id |-> "toc" \in extensions, br |-> FALSE,
         lines |-> <<strip_blanks(open)>>]

\* The lines of a paragraph; nl2br puts <br /> between them, without it
\* they stay apart by a newline.
paragraph(lines, extensions) ==
    [tag |-> "p", level |-> 0, id |-> FALSE, br |-> "nl2br" \in extensions, lines |-> lines]

\* The elements of the lines left, after the elements done and the lines
\* of the paragraph that is open.
RECURSIVE elements(_, _, _, _)
elements(lines, done, open, extensions) ==
    LET closed == IF open = <<>> THEN done ELSE Append(done, paragraph(open, extensions))
    IN  IF lines = <<>> THEN closed
        ELSE IF strip_blanks(Head(lines)) = <<>> THEN elements(Tail(lines), closed, <<>>, extensions)
        ELSE IF Head(Head(lines)) = "#"
        THEN elements(Tail(lines), Append(closed, heading(Head(lines), extensions)), <<>>, extensions)
        ELSE elements(Tail(lines), done, Append(open, strip_blanks(Head(lines))), extensions)

\* markdown.Markdown(extensions=...).convert(source)
markdown_convert(extensions, source) == elements(lines_of(source), <<>>, <<>>, extensions)

\* inline_pattern = r'\$(.*?)\$' and block_pattern = r'\$\$(.*?)\$\$'
inline_pattern == <<"$", "(.*?)", "$">>
block_pattern == <<"$", "$", "(.*?)", "$", "$">>

\* inline_math_replacer and block_math_replacer: the containers of a formula.
inline_container == [open |-> "<span class=\"math-inline\">", close |-> "</span>"]
block_container == [open |-> "<div class=\"math-display\">", close |-> "</div>"]

\* re.sub(pattern, replacer, text, flags): every match becomes the container
\* around simplify_math_formula of its group.
RECURSIVE math_sub_from(_, _, _, _, _)
math_sub_from(pat, container, text, pos, dotall) ==
    IF pos > Len(text) THEN <<>>
    ELSE LET m == match_at(pat, 1, text, pos, <<>>, dotall)
         IN  IF m.ok
             THEN <<container.open>> \o simplify_math_formula(m.groups[1]) \o <<container.close>>
                      \o math_sub_from(pat, container, text, m.end, dotall)
             ELSE <<text[pos]>> \o math_sub_from(pat, container, text, pos + 1, dotall)

\* The two substitutions of process_math_formulas: the inline formulas of
\* the source, then the block formulas of what that left.
processed_content(original_markdown) ==
    LET inline_done == math_sub_from(inline_pattern, inline_container, original_markdown, 1, FALSE)
    IN  math_sub_from(block_pattern, block_container, inline_done, 1, TRUE)

\* ConvertThread.process_math_formulas(html_content, original_markdown)
process_math_formulas(html_content, original_markdown) ==
    markdown_convert(SecondExtensions, processed_content(original_markdown))

\* ConvertThread.convert_markdown_with_math(original_markdown)
convert_markdown_with_math(original_markdown) ==
    LET html_content == markdown_convert(FirstExtensions, original_markdown)
    IN  process_math_formulas(html_content, original_markdown)

\* The Markdown sources tried: up to MaxParts pieces, each a letter, a
\* dollar sign, a newline or a heading.
MarkdownSources ==
    {flatten(q) : q \in SeqsUpTo({<<"x">>, <<"$">>, <<"\n">>, <<"#", " ", "x">>}, MaxParts)}

MarkdownInit ==
    /\ call \in {[fn |-> "convert_markdown_with_math", args |-> <<m>>] : m \in MarkdownSources}
    /\ returned = NoResult
    /\ NoThread

\* html_content = self.convert_markdown_with_math(original_markdown)
ConvertMarkdown ==
    /\ call.fn = "convert_markdown_with_math"
    /\ ~returned.done
    /\ returned' = [done |-> TRUE, value |-> convert_markdown_with_math(call.args[1])]
    /\ UNCHANGED <<call, thread_state>>

MarkdownSpec == MarkdownInit /\ [][ConvertMarkdown]_vars

(***************************************************************************)
(* Properties.                                                             *)
(***************************************************************************)
Terminal(e) == e.signal \in {"finished", "error"}

\* The positions of the signals of one kind.
Signals(name) == {k \in 1..Len(events) : events[k].signal = name}

\* The positions of the log lines of one kind.
Lines(kind) == {k \in 1..Len(events) : events[k].signal = "log_message" /\ events[k].kind = kind}

\* What the disk holds before a run.
InitialDisk == [p \in AllPaths |-> IF p \in InputPaths THEN "md" ELSE Absent]

\* C1: partial-failure isolation.  When a run that passed the pre-check with
\* at least one file has ended, every file was opened exactly once, in list
\* order; every file reached an outcome; every file whose processing did not
\* raise had its PDF written by the renderer and its success line logged; and
\* the run ended with finished, with no error signal.
C1_PartialFailureIsolation ==
    (pc = "done" /\ is_valid /\ total_files >= 1) =>
        /\ opened = [k \in 1..total_files |-> k]
        /\ \A k \in 1..total_files : outcome[k] \in {"returned", "raised"}
        /\ \A k \in 1..total_files : outcome[k] = "returned" => proc[k].wrote = "pdf"
        /\ Cardinality(Lines("success")) = Cardinality({k \in 1..total_files : outcome[k] = "returned"})
        /\ events[Len(events)] = finished
        /\ Signals("error") = {}

\* C1 witness: three files, the second raised, the first and the third were
\* converted, and the run has ended.
C1_Witness ==
    /\ pc = "done"
    /\ total_files = 3
    /\ outcome[1] = "returned"
    /\ outcome[2] = "raised"
    /\ outcome[3] = "returned"
    /\ proc[3].wrote = "pdf"

\* C2: fatal pre-check.  Once the validation has failed, the run is over, the
\* error signal is the only signal emitted, no source was opened, the renderer
\* was not invoked and the disk is as it was: no temporary file, no PDF.
C2_FatalPreCheck ==
    (pc # "validate" /\ ~is_valid) =>
        /\ pc = "done"
        /\ events = <<error("validation")>>
        /\ opened = <<>>
        /\ invoked = <<>>
        /\ disk = InitialDisk
        /\ Signals("progress") = {}
        /\ Signals("finished") = {}

\* C2 witness: a run over three files whose validation failed.
C2_Witness == pc = "done" /\ ~is_valid /\ total_files = 3 /\ events # <<>>

\* C3: at most one terminal signal is ever emitted, nothing is emitted after
\* it, and a run that has ended has emitted exactly one.
C3_OneTerminalLast ==
    /\ Cardinality(Signals("finished") \cup Signals("error")) <= 1
    /\ \A k \in 1..Len(events) : Terminal(events[k]) => k = Len(events)
    /\ pc = "done" <=> (events # <<>> /\ Terminal(events[Len(events)]))

\* C3 witness: a run that ended with finished after a failed file and a
\* converted one.
C3_Witness ==
    /\ pc = "done"
    /\ events[Len(events)] = finished
    /\ Lines("failure") # {}
    /\ Signals("progress") # {}

\* C4: when run is back at the head of its loop after file i, it has emitted
\* one progress signal for each of the i files done so far, failed ones included.
C4_ProgressAfterEveryFile ==
    pc = "loop" => Cardinality(Signals("progress")) = i

\* C5: when finished is emitted, a progress signal of 100 has been emitted
\* before it.
C5_HundredBeforeFinished ==
    (events # <<>> /\ events[Len(events)] = finished) =>
        \E k \in Signals("progress") : events[k].value = 100

\* The file lines (success or failure) logged before position k.
FileLinesBefore(k) == {j \in Lines("success") \cup Lines("failure") : j < k}

\* C6: the progress values of a run never decrease, lie in 0..100, and 100 is
\* emitted only once a success or failure line was logged for every file.
C6_ProgressMonotone ==
    /\ \A j, k \in Signals("progress") : j < k => events[j].value <= events[k].value
    /\ \A k \in Signals("progress") : events[k].value \in 0..100
    /\ \A k \in Signals("progress") :
          events[k].value = 100 => Cardinality(FileLinesBefore(k)) = total_files

\* C6 witness: three files, one of them failed, two progress signals emitted,
\* the last of them 100.
C6_Witness ==
    /\ total_files = 3
    /\ Lines("failure") # {}
    /\ Cardinality(Signals("progress")) = 2
    /\ events[Len(events)] = progress(100)

\* round(k / n * 100) as Python rounds: to the nearest integer, ties to even.
RoundedPercent(k, n) ==
    LET q == (100 * k) \div n
        r == 2 * ((100 * k) % n)
    IN  IF r < n THEN q
        ELSE IF r > n THEN q + 1
        ELSE q + (q % 2)

\* C7 as stated: the progress emitted after file i of N is round(i / N * 100).
C7_ProgressIsRounded ==
    (pc = "loop" /\ ~raised) =>
        events[Len(events)] = progress(RoundedPercent(i, total_files))

\* C7 amended: the progress emitted after file i of N is the product
\* (i / N) * 100 truncated, not rounded: it is floor(100 * i / N) when
\* 100 * i / N is no integer, floor(100 * i / N) or one less when it is, and
\* 100 when i = N.
C7_ProgressIsTruncated ==
    (pc = "loop" /\ ~raised) =>
        LET v == events[Len(events)].value
            q == (100 * i) \div total_files
        IN  /\ events[Len(events)].signal = "progress"
            /\ (100 * i) % total_files # 0 => v = q
            /\ (100 * i) % total_files = 0 => v \in {q - 1, q}
            /\ i = total_files => v = 100

\* C7 witness: the second of three files is done and 66 was emitted.
C7_Witness ==
    /\ pc = "loop"
    /\ ~raised
    /\ i = 2
    /\ total_files = 3
    /\ events[Len(events)] = progress(66)

\* The temporary files of the current file.
TempsOfFile == {header_temp(output_dir, i), footer_temp(output_dir, i)}

\* C8 as stated: once the finally clause of file i has run, neither of its
\* temporary files exists.
C8_TempFilesGone ==
    pc \in {"loop", "progress"} => \A p \in TempsOfFile : disk[p] = Absent

\* C8 amended: once the finally clause of file i has run, each of its
\* temporary files is gone unless os.remove failed on it.
C8_TempFilesGoneUnlessRemoveFailed ==
    pc \in {"loop", "progress"} =>
        \A p \in TempsOfFile : disk[p] = Absent \/ p \in unremoved

\* C8 witness: the renderer failed for a file with a header and a footer
\* file, and both are gone after the finally clause.
C8_Witness ==
    /\ pc = "loop"
    /\ raised
    /\ proc[i].exit = 1
    /\ header_path # None
    /\ footer_path # None
    /\ \A p \in TempsOfFile : disk[p] = Absent

\* The last success or failure line logged.
LastFileLine ==
    LET ks == Lines("success") \cup Lines("failure")
    IN  events[CHOOSE k \in ks : \A j \in ks : j <= k]

C10_RunTerminates == is_valid ~> (pc = "done")

\* C11: every file of a batch is rendered with the header text, footer text,
\* page size, margins and encoding the widgets held when the thread was
\* started, whatever the user changes while the worker runs.
C11_RequestImmutable ==
    \A k \in 1..Len(rendered) :
        /\ rendered[k].header = strip(request.header)
        /\ rendered[k].footer = strip(request.footer)
        /\ rendered[k].options["page-size"] = request.page_size
        /\ rendered[k].options["margin-top"] = mm(request.margins.top)
        /\ rendered[k].options["margin-right"] = mm(request.margins.right)
        /\ rendered[k].options["margin-bottom"] = mm(request.margins.bottom)
        /\ rendered[k].options["margin-left"] = mm(request.margins.left)
        /\ rendered[k].options["encoding"] = request.encoding

\* C12: every option map create_pdf_options returns has disable-javascript,
\* disable-external-links, disable-internal-links and
\* enable-local-file-access set to True.
C12_OptionsAlwaysDisableScripting ==
    options # NoOptions =>
        /\ options["disable-javascript"] = TRUE
        /\ options["disable-external-links"] = TRUE
        /\ options["disable-internal-links"] = TRUE
        /\ options["enable-local-file-access"] = TRUE

\* C12 witness: options built for Legal pages in GBK with no margins, without
\* a header and with a footer.
C12_Witness ==
    /\ options # NoOptions
    /\ page_size_combo = "Legal"
    /\ encoding_combo = "GBK"
    /\ margin_spinboxes = [k \in MarginKeys |-> 0]
    /\ header_path = None
    /\ footer_path # None

\* C13 as stated: the options of a file hold header-html exactly when the
\* header text is not empty, and footer-html exactly when the footer text is
\* not empty.
C13_HeaderEntryIffTextNonEmpty ==
    \A k \in 1..Len(rendered) :
        /\ "header-html" \in DOMAIN rendered[k].options <=> header_edit # ""
        /\ "footer-html" \in DOMAIN rendered[k].options <=> footer_edit # ""

\* The header-html or footer-html entry of the options of the k-th renderer
\* call is there exactly when the stripped text is not empty, and is then the
\* path of that file's temporary file.
EntryMatches(k, key, text, temp) ==
    LET opts == rendered[k].options
    IN  /\ key \in DOMAIN opts <=> strip(text) # ""
        /\ key \in DOMAIN opts => opts[key] = temp /\ opts[key] # None

\* C13 amended: the options of a file hold header-html exactly when the
\* header text, stripped of surrounding whitespace, is not empty (likewise
\* footer-html); the value is then the path of the temporary file written for
\* that file, which exists while the renderer runs, and never None.
C13_HeaderEntryIffStrippedTextNonEmpty ==
    /\ \A k \in 1..Len(rendered) :
          /\ EntryMatches(k, "header-html", header_edit, header_temp(output_dir, invoked[k]))
          /\ EntryMatches(k, "footer-html", footer_edit, footer_temp(output_dir, invoked[k]))
    /\ pc = "invoking" =>
          /\ options = rendered[Len(rendered)].options
          /\ invoked[Len(invoked)] = i
          /\ "header-html" \in DOMAIN options => disk[options["header-html"]] = "header_html"
          /\ "footer-html" \in DOMAIN options => disk[options["footer-html"]] = "footer_html"

\* C13 witness: the renderer runs for the second file with a header file and
\* no footer.
C13_Witness ==
    /\ pc = "invoking"
    /\ i = 2
    /\ "header-html" \in DOMAIN options
    /\ "footer-html" \notin DOMAIN options
    /\ disk[options["header-html"]] = "header_html"

\* The name of a file without its extension: the name itself when it has no
\* dot after a character that is no dot, else what stands before its last dot.
IsStemOf(stem, name) ==
    \/ /\ stem = name
       /\ \A k \in 1..Len(name) : name[k] = "." => \A j \in 1..(k - 1) : name[j] = "."
    \/ /\ Len(stem) < Len(name)
       /\ stem = SubSeq(name, 1, Len(stem))
       /\ name[Len(stem) + 1] = "."
       /\ \A k \in (Len(stem) + 2)..Len(name) : name[k] # "."
       /\ \E j \in 1..Len(stem) : stem[j] # "."

\* The last component of a path.
LastComponent(path) == LET comps == split(path) IN comps[Len(comps)]

\* C14: the output path is the output directory (made absolute) joined with
\* the input's base name with its extension replaced by .pdf; /a/report.md and
\* /out give /out/report.pdf; an input with the same name in another
\* directory gives the same output path.
C14_OutputPathDerivation ==
    returned.done =>
        LET file == call.args[1]
            dir  == call.args[2]
            name == LastComponent(file)
            out  == returned.value
            top  == posix_abspath(dir)
        IN  /\ \E n \in 0..Len(name) :
                  /\ IsStemOf(SubSeq(name, 1, n), name)
                  /\ out = (IF top = <<"/">> THEN top ELSE top \o <<"/">>)
                               \o SubSeq(name, 1, n) \o <<".", "p", "d", "f">>
            /\ (file = <<"/", "a", "/", "r", "e", "p", "o", "r", "t", ".", "m", "d">>
                    /\ dir = <<"/", "o", "u", "t">>) =>
                  out = <<"/", "o", "u", "t", "/", "r", "e", "p", "o", "r", "t", ".", "p", "d", "f">>
            /\ \A other \in FilePathTexts :
                  LastComponent(other) = name => derive_output_path(other, dir) = out

\* C14 witness: /a/report.md and /out gave /out/report.pdf.
C14_Witness ==
    /\ returned.done
    /\ call.args = << <<"/", "a", "/", "r", "e", "p", "o", "r", "t", ".", "m", "d">>,
                      <<"/", "o", "u", "t">> >>
    /\ returned.value = <<"/", "o", "u", "t", "/", "r", "e", "p", "o", "r", "t", ".", "p", "d", "f">>

\* C15: no two files of one batch that were both converted have the same
\* output path, so no PDF of the batch is overwritten by a later file.
C15_OutputPathsUnique ==
    \A j, k \in 1..total_files :
        (j < k /\ outcome[j] = "returned" /\ outcome[k] = "returned") =>
            output_path(output_dir, files_to_process[j]) # output_path(output_dir, files_to_process[k])

\* The tokens of a text.
Tokens(text) == {text[k] : k \in 1..Len(text)}

\* C17: for every command of the symbol table, simplify_math_formula of a
\* backslash and the command's name returns a text that holds the command's
\* character and no backslash.
C17_SymbolTableCoverage ==
    (returned.done /\ call.args[2] = "formula") =>
        \A e \in SymbolTable :
            call.args[1] = <<"\\">> \o e.name =>
                /\ e.symbol \in Tokens(returned.value)
                /\ "\\" \notin Tokens(returned.value)

\* C19: simplify_math_formula returns its own output unchanged.
C19_FixedPoint ==
    (returned.done /\ call.args[2] = "output") => returned.value = call.args[1]

\* A source holds a block formula where block_pattern matches it.
HasBlockFormula(source) ==
    \E pos \in 1..Len(source) : match_at(block_pattern, 1, source, pos, <<>>, TRUE).ok

\* The tokens of the lines of the elements of an HTML.
HtmlTokens(html) ==
    UNION {UNION {Tokens(html[e].lines[l]) : l \in 1..Len(html[e].lines)} : e \in 1..Len(html)}

\* C16: the HTML of a source that holds a block formula $$body$$ holds a
\* math-display container for it; a block formula is not taken for inline
\* formulas.
C16_BlockFormulaInDisplayContainer ==
    (returned.done /\ HasBlockFormula(call.args[1])) =>
        block_container.open \in HtmlTokens(returned.value)

\* C18: for a source without a dollar sign and without a backslash,
\* convert_markdown_with_math returns the HTML of the first conversion.
C18_PlainTextPassThrough ==
    (returned.done /\ Tokens(call.args[1]) \cap {"$", "\\"} = {}) =>
        returned.value = markdown_convert(FirstExtensions, call.args[1])

\* The summary line of the current file is the last signal emitted: run has
\* logged the success or the failure of the file and not yet left its try
\* statement.
SummaryLineJustEmitted ==
    /\ pc = "finally"
    /\ events # <<>>
    /\ events[Len(events)].signal = "log_message"
    /\ events[Len(events)].kind \in {"success", "failure"}

\* C20: when the summary line of a file (its success line or its failure
\* line) is emitted, the header and footer temporary files of the file have
\* been removed.
C20_CleanupBeforeSummaryLine ==
    SummaryLineJustEmitted =>
        /\ (header_path # None => disk[header_path] = Absent)
        /\ (footer_path # None => disk[footer_path] = Absent)

\* run is between a successful read of the current file and the call of
\* the renderer for it.
Rendering == pc \in {"header", "footer", "invoke"}

\* C21 as stated: no step between a successful read and the call of the
\* renderer makes the file fail.
C21_RenderingNeverFails == [][Rendering => pc' # "except"]_vars

\* C21: between a successful read and the call of the renderer the file
\* fails only in the write of its header or footer temporary file; with the
\* files written, the renderer is called.
C21_RenderingFailsOnlyWritingTemp ==
    [][/\ (Rendering /\ pc' = "except") =>
             \/ pc = "header" /\ header # ""
             \/ pc = "footer" /\ footer # ""
       /\ pc = "invoke" => (pc' = "invoking" /\ invoked' = Append(invoked, i))]_vars

\* A file was read, its header file written, and the renderer called for it.
C21_Witness == pc = "invoking" /\ header_path # None /\ disk[header_path] = "header_html"

\* The failure line of file k is logged: a failure line with the name of
\* the file follows the "processing" line of index k, before the next one.
FailureLineLogged(k) ==
    \E a, b \in 1..Len(events) :
        /\ a < b
        /\ events[a] = log_message("processing", basename(files_to_process[k]), k)
        /\ events[b] = log_message("failure", basename(files_to_process[k]), 0)
        /\ \A c \in (a + 1)..(b - 1) : events[c].kind # "processing"

\* C22: for a file whose source could not be opened or read, the renderer
\* is never called and no renderer process runs, no header or footer
\* temporary file is written, the file counts as failed, and once the except
\* clause has run its failure line is logged.
C22_ReadFailurePath ==
    \A k \in unread :
        /\ \A n \in 1..Len(invoked) : invoked[n] # k
        /\ proc[k] = NoProc
        /\ disk[header_temp(output_dir, k)] = Absent
        /\ disk[footer_temp(output_dir, k)] = Absent
        /\ (k = i => header_path = None /\ footer_path = None)
        /\ outcome[k] = "raised"
        /\ (k # i \/ pc # "except") => FailureLineLogged(k)

\* A run has ended in which one file could not be read and another was
\* converted.
C22_Witness ==
    /\ pc = "done"
    /\ unread # {}
    /\ \E k \in 1..total_files : outcome[k] = "returned"

\* C23: a failure of os.remove on a temporary file changes nothing but the
\* file left behind.  The finally step leaves the outcome of every file and
\* the signals emitted as they were and goes on to the progress update or
\* the next file; when the removal of the header file fails, the footer
\* file is still removed or its removal fails as well; and a run in which a
\* removal failed emits no fatal error and ends with the finished signal.
C23_CleanupNeverEscalates ==
    /\ [][pc = "finally" =>
             /\ outcome' = outcome
             /\ events' = events
             /\ pc' = after_finally
             /\ (header_path \in unremoved' /\ removes(disk, footer_path)) =>
                    (disk'[footer_path] = Absent \/ footer_path \in unremoved')]_vars
    /\ [](unremoved # {} =>
             /\ \A e \in 1..Len(events) : events[e].signal # "error"
             /\ pc = "done" => events[Len(events)] = finished)

\* A run of several files has ended: the header file of the first file
\* could not be removed, its footer file is gone, the file counts as
\* converted, and the later files were processed.
C23_Witness ==
    /\ pc = "done"
    /\ total_files >= 2
    /\ header_temp(output_dir, 1) \in unremoved
    /\ footer # ""
    /\ disk[footer_temp(output_dir, 1)] = Absent
    /\ outcome[1] = "returned"
    /\ outcome[2] # "pending"

\* C24: simplify_math_formula rewrites each of H_2O, H_2, O_2, CH_4 and
\* CO_2 to its form with Unicode subscripts.
C24_ChemicalFormulaOverride ==
    \A e \in ChemicalTable :
        (returned.done /\ call.args = <<e.name, "formula">>) => returned.value = e.form

\* C25: in single-file mode with an output PDF file chosen, the path the
\* run writes the PDF to is the chosen path.
C25_SingleFileWritesChosenPath ==
    (/\ call.fn = "output_path"
     /\ Len(call.args) = 3
     /\ endswith(call.args[3], DotPdf)
     /\ returned.done) =>
        returned.value = posix_abspath(call.args[3])

\* The paths run writes its PDFs to.
OutputPaths == {output_path(output_dir, files_to_process[k]) : k \in 1..total_files}

\* C26: no step of a batch run changes an input file, and no step changes
\* or removes a file of the user in the output directory, unless it is at
\* the output path of an input file.
C26_OnlyOutputsTouched ==
    [][\A p \in AllPaths :
           /\ p \in InputPaths => disk'[p] = disk[p]
           /\ (disk[p] = UserContent /\ p \notin OutputPaths) => disk'[p] = UserContent]_vars

\* C27: the renderer run by every invocation of a thread is the one its
\* run validated.
C27_ValidatedRendererIsUsed ==
    \A k \in 1..Len(threads) :
        threads[k].validated # NoPath => threads[k].used \subseteq {threads[k].validated}

\* The threads whose terminal signal the window has not handled.
Unhandled == {k \in 1..Len(threads) : threads[k].state # "handled"}

\* C28: at most one thread is between its start and the handling of its
\* terminal signal; it is the last one started and the start button is
\* disabled for as long; with every thread handled the button is enabled.
C28_OneWorkerAtATime ==
    /\ Cardinality(Unhandled) <= 1
    /\ Unhandled \subseteq {Len(threads)}
    /\ convert_button <=> Unhandled = {}

\* A second thread runs with the button disabled, after the first one
\* ended and its terminal signal was handled.
C28_Witness ==
    /\ Len(threads) = 2
    /\ threads[1].state = "handled"
    /\ threads[2].state = "converting"
    /\ ~convert_button

\* The elements of a list at the rows not in a set, in order.
RECURSIVE WithoutRows(_, _, _)
WithoutRows(l, rows, k) ==
    IF k > Len(l) THEN <<>>
    ELSE (IF k \in rows THEN <<>> ELSE <<l[k]>>) \o WithoutRows(l, rows, k + 1)

\* C29: selected_files holds no path twice and has the length of file_list,
\* the item at each row is the item made for the path at that place of
\* selected_files, and remove_selected_files leaves the paths and the items
\* of the rows that were not selected, in their order.
C29_ListsStayAligned ==
    /\ [](/\ NoDuplicates(selected_files)
          /\ Len(selected_files) = Len(file_list)
          /\ \A k \in 1..Len(file_list) :
                /\ file_list[k].toolTip = selected_files[k]
                /\ file_list[k].text = basename(selected_files[k]))
    /\ [][call'.fn = "remove_selected_files" =>
             /\ selected_files' = WithoutRows(selected_files, selectedRows, 1)
             /\ file_list' = WithoutRows(file_list, selectedRows, 1)]_vars

\* Two of three listed files, the first and the last, have been removed.
C29_Witness ==
    /\ call.fn = "remove_selected_files"
    /\ call.args[1] \in {<<1, 3>>, <<3, 1>>}
    /\ Len(selected_files) = 1
    /\ Len(file_list) = 1

\* C30: a run over an empty list whose validation passed has ended once it
\* has left the first step: it has logged its first line and emitted the
\* error signal, and nothing else; no finished signal nor progress was
\* emitted, no source was opened, the renderer was not invoked and the
\* disk is as it was.
C30_EmptyListIsAnError ==
    (total_files = 0 /\ is_valid /\ pc \notin {"validate", "start"}) =>
        /\ pc = "done"
        /\ events = <<log_message("start_batch", NoName, 0), error("no_files")>>
        /\ Signals("finished") = {}
        /\ Signals("progress") = {}
        /\ opened = <<>>
        /\ invoked = <<>>
        /\ disk = InitialDisk

\* A run over an empty list has passed the validation and ended.
C30_Witness == pc = "done" /\ is_valid /\ total_files = 0 /\ Signals("error") # {}

====
